---- MODULE Spec2Model ----
(***************************************************************************)
(* Verification model of the Lexa document indexer and retrieval wrappers. *)
(*                                                                         *)
(* Ingestion : indexer/pipeline_fixed.py, indexer/pipeline.py,             *)
(*             indexer/store.py, indexer.bak.*/cache.py, hashutil.py,      *)
(*             reindex.py, indexer/watch.py                                *)
(* Retrieval : lexa_app/hybrid_autopatch.py, crossrefs_autopatch.py,       *)
(*             quote_facts_autopatch.py, require_sources_autopatch.py      *)
(***************************************************************************)
EXTENDS Integers, Sequences, FiniteSets, Bags, TLC

\* ------------------------------------------------------------------------
\* Bounds of the model
\* ------------------------------------------------------------------------
\* file contents are the byte strings 1..MaxContent (0 stands for "no file")
MaxContent == 2
\* the wall clock read by time.time() runs over 0..MaxClock
MaxClock == 1
\* number of file-system events that can wait for delivery
MaxEvents == 1

VARIABLES
    files,             \* absolute path -> content (0: the file does not exist)
    store,             \* the Chroma collection: a bag of row metadata
    cache,             \* cache directory: doc_id -> content of doc.meta.json
    events,            \* watchdog events not yet delivered to the handler
    processing_files,  \* DocumentHandler.processing_files: path -> first_seen_ts
    now,               \* wall clock
    housekeeper,       \* DocumentHandler.housekeeper: where _housekeep_loop is
                       \* and its local variables
    workers,           \* the pipeline calls in progress, one per thread
    last,              \* the last pipeline or handler call and its outcome
    args,              \* the arguments of the function under study
    result,            \* what that function returned
    globs              \* the app module's namespace: the wrappers installed
                       \* around the chat route and around the retriever,
                       \* innermost first

vars == <<files, store, cache, events, processing_files, now, housekeeper,
          workers, last, args, result, globs>>
watchVars == <<events, processing_files, now>>
threadVars == <<housekeeper, workers>>
callVars == <<args, result, globs>>

\* ------------------------------------------------------------------------
\* Paths and file names
\* ------------------------------------------------------------------------
\* A path is the sequence of its components.
WATCH_DIR == <<"Database">>

\* relative paths of the files the model keeps on disk
FileRels == {<<"a.txt">>, <<"b.txt">>}
\* relative paths the watcher must ignore
IgnoredRels == {<<"n.tmp">>, <<".lexa-cache", "a.txt">>, <<".a.txt">>}

AbsPath(rel) == WATCH_DIR \o rel
FilePaths == {AbsPath(r) : r \in FileRels}
IgnoredPaths == {AbsPath(r) : r \in IgnoredRels}

IGNORE_DIRS == {".lexa-cache", "__pycache__", ".git"}
ALLOWED_EXT == {".pdf", ".docx", ".doc", ".pptx", ".ppt", ".txt", ".md",
                ".rtf", ".xlsx", ".xls", ".csv"}

\* os.path.basename
basename(path) == path[Len(path)]

\* Path(p).suffix.lower() of the file names of the model
suffix(path) ==
    LET n == basename(path) IN
    CASE n \in {"a.txt", "b.txt", "c.txt"} -> ".txt"
      [] n = "n.tmp" -> ".tmp"
      [] OTHER -> ""

\* str.startswith(".") of the file names of the model
startswith_dot(name) == name \in {".a.txt", ".lexa-cache", ".git"}

RECURSIVE CommonLen(_, _)
CommonLen(a, b) ==
    IF a = <<>> \/ b = <<>> \/ Head(a) # Head(b) THEN 0
    ELSE 1 + CommonLen(Tail(a), Tail(b))

\* os.path.relpath(file_path, watch_dir)
get_relative_path(file_path, watch_dir) ==
    LET n == CommonLen(file_path, watch_dir) IN
    [i \in 1..(Len(watch_dir) - n) |-> ".."]
        \o SubSeq(file_path, n + 1, Len(file_path))

\* ------------------------------------------------------------------------
\* Identity (hashutil.py)
\* ------------------------------------------------------------------------
\* SHA-256 is modelled as a collision-free digest: the digest of x is the
\* tagged value <<"sha256", x>>, equal for equal inputs only.
sha256(x) == <<"sha256", x>>

compute_content_hash(content) == sha256(content)

\* a variant deriving the identifier from the path alone
compute_doc_id_path_only(relative_path, content_hash) ==
    sha256(<<relative_path, ":">>)

compute_doc_id(relative_path, content_hash) ==
    sha256(<<relative_path, ":", content_hash>>)

\* the outcome of a call that raised
Raise == [ok |-> FALSE]

\* get_file_info on the file system fs; opening a missing file raises
get_file_info(fs, file_path, watch_dir) ==
    IF file_path \notin DOMAIN fs \/ fs[file_path] = 0 THEN Raise
    ELSE LET relative_path == get_relative_path(file_path, watch_dir)
             content_hash == compute_content_hash(fs[file_path])
         IN [ok |-> TRUE,
             relative_path |-> relative_path,
             content_hash |-> content_hash,
             doc_id |-> compute_doc_id(relative_path, content_hash)]

\* ------------------------------------------------------------------------
\* Cache (cache.py)
\* ------------------------------------------------------------------------
\* cache maps the doc ids that have a cache directory to the state of the
\* doc.meta.json file in it.
NoFile == [kind |-> "nofile"]        \* the directory holds no doc.meta.json
Partial == [kind |-> "partial"]      \* a truncated file: open(..,'w') was
                                     \* reached, json.dump did not finish
None == [kind |-> "none"]            \* Python's None

\* os.makedirs(doc_cache_dir, exist_ok=True)
get_doc_cache_dir(c, doc_id) ==
    IF doc_id \in DOMAIN c THEN c
    ELSE [d \in DOMAIN c \cup {doc_id} |-> IF d = doc_id THEN NoFile ELSE c[d]]

\* the file written by json.dump(meta)
save_doc_meta(c, doc_id, meta) ==
    [d \in DOMAIN c \cup {doc_id} |-> IF d = doc_id THEN meta ELSE c[d]]

\* what load_doc_meta returns; a file json.load cannot parse gives None
load_doc_meta(c, doc_id) ==
    IF doc_id \notin DOMAIN c THEN None
    ELSE IF c[doc_id].kind = "nofile" THEN None
    ELSE IF c[doc_id].kind = "partial" THEN None
    ELSE c[doc_id]

\* shutil.rmtree(cache_dir)
delete_doc_cache(c, doc_id) == [d \in DOMAIN c \ {doc_id} |-> c[d]]

\* a variant that looks for the hash under a key nobody writes
has_cached_data_wrong_key(c, doc_id, content_hash) ==
    LET meta == load_doc_meta(c, doc_id) IN
    IF meta.kind # "meta" THEN FALSE
    ELSE IF meta.keys = {} THEN FALSE
    ELSE "hash" \in meta.keys /\ meta.content_hash = content_hash

\* meta.get('content_hash') == content_hash; an empty dict is falsy
has_cached_data(c, doc_id, content_hash) ==
    LET meta == load_doc_meta(c, doc_id) IN
    IF meta.kind # "meta" THEN FALSE
    ELSE IF meta.keys = {} THEN FALSE
    ELSE "content_hash" \in meta.keys /\ meta.content_hash = content_hash

\* ------------------------------------------------------------------------
\* Vector store (store.py)
\* ------------------------------------------------------------------------
\* Every row gets a fresh uuid4 id, so the collection is a bag of the rows'
\* metadata: row metadata -> number of rows that carry it.

RECURSIVE SumOver(_, _)
SumOver(f, S) ==
    IF S = {} THEN 0
    ELSE LET x == CHOOSE y \in S : TRUE IN f[x] + SumOver(f, S \ {x})

RowsOf(s, doc_id) == {m \in DOMAIN s : m.doc_id = doc_id}

\* len(get_doc_chunk_ids(doc_id))
get_doc_chunk_ids(s, doc_id) == SumOver(s, RowsOf(s, doc_id))

\* a variant deleting only the first chunk id found
DocumentStore_delete_first(s, doc_id) ==
    IF RowsOf(s, doc_id) = {} THEN [deleted |-> 0, store |-> s]
    ELSE LET m == CHOOSE x \in RowsOf(s, doc_id) : TRUE IN
         [deleted |-> 1,
          store |-> IF s[m] = 1 THEN [x \in DOMAIN s \ {m} |-> s[x]]
                    ELSE [s EXCEPT ![m] = s[m] - 1]]

\* DocumentStore.delete_document: the count removed and the collection left
DocumentStore_delete_document(s, doc_id) ==
    [deleted |-> get_doc_chunk_ids(s, doc_id),
     store |-> [m \in DOMAIN s \ RowsOf(s, doc_id) |-> s[m]]]

\* DocumentStore.upsert_chunks of n_chunks chunks that carry metadata meta
upsert_chunks(s, meta, n_chunks, n_embeddings) ==
    IF n_chunks = 0 \/ n_embeddings = 0 THEN [ok |-> TRUE, store |-> s]
    ELSE IF n_chunks # n_embeddings THEN [ok |-> FALSE, store |-> s]
    ELSE [ok |-> TRUE, store |-> s (+) [x \in {meta} |-> n_chunks]]

get_collection_stats(s) ==
    [total_chunks |-> BagCardinality(s),
     total_documents |-> Cardinality({m.doc_id : m \in DOMAIN s})]

\* ------------------------------------------------------------------------
\* Pipeline (pipeline_fixed.py)
\* ------------------------------------------------------------------------
batch_size == 100

\* process_text_file: the number of chunks extracted from a file with the
\* given content (a long text, a short text, a blank file)
process_text_file(content) ==
    CASE content % 3 = 1 -> batch_size + 50
      [] content % 3 = 2 -> 1
      [] OTHER -> 0

\* number of client.embeddings.create calls needed for n_texts texts
Batches(n_texts) == (n_texts + batch_size - 1) \div batch_size

\* a variant: a batch whose call raises is given placeholder vectors and the
\* loop goes on
get_embeddings_placeholder(n_texts, fail_at) ==
    IF n_texts = 0 THEN [embeddings |-> 0, calls |-> 0]
    ELSE [embeddings |-> n_texts, calls |-> Batches(n_texts)]

\* get_embeddings: the number of embeddings returned and the number of API
\* calls made, when the call for batch fail_at raises (0: none raises)
get_embeddings(n_texts, fail_at) ==
    IF n_texts = 0 THEN [embeddings |-> 0, calls |-> 0]
    ELSE IF fail_at = 0 \/ fail_at > Batches(n_texts)
    THEN [embeddings |-> n_texts, calls |-> Batches(n_texts)]
    ELSE [embeddings |-> 0, calls |-> fail_at]

\* the embedding API raises during get_embeddings(n_texts)
EmbeddingRaises(n_texts, fail_at) ==
    n_texts > 0 /\ fail_at \in 1..Batches(n_texts)

NoDoc == <<>>

\* what a call leaves behind: the value returned, the collection, the cache,
\* the doc id computed, and what happened on the way
Outcome(ret, s, c, doc_id, hit, calls, failed) ==
    [ret |-> ret, store |-> s, cache |-> c, doc_id |-> doc_id,
     hit |-> hit, calls |-> calls, failed |-> failed]

\* the doc.meta.json written at the end of process_document
DocMeta(info, n_chunks) ==
    [kind |-> "meta",
     keys |-> {"doc_id", "relative_path", "content_hash", "chunk_count",
               "processing_complete"},
     doc_id |-> info.doc_id,
     content_hash |-> info.content_hash,
     chunk_count |-> n_chunks,
     processing_complete |-> "true"]

\* the metadata every chunk of a document carries
ChunkMeta(info) ==
    [doc_id |-> info.doc_id,
     relative_path |-> info.relative_path,
     content_hash |-> info.content_hash]

\* EnhancedDocumentPipeline.process_document
process_document(fs, s, c, file_path, watch_dir, fail_at) ==
    LET info == get_file_info(fs, file_path, watch_dir) IN
    IF ~info.ok THEN Outcome(FALSE, s, c, NoDoc, FALSE, 0, FALSE)
    ELSE IF suffix(file_path) \notin ALLOWED_EXT
    THEN Outcome(FALSE, s, c, info.doc_id, FALSE, 0, FALSE)
    ELSE
    LET c1 == get_doc_cache_dir(c, info.doc_id) IN
    IF has_cached_data(c, info.doc_id, info.content_hash)
    THEN Outcome(TRUE, s, c1, info.doc_id, TRUE, 0, FALSE)
    ELSE
    LET n_chunks == process_text_file(fs[file_path]) IN
    IF n_chunks = 0
    THEN Outcome(FALSE, s, c1, info.doc_id, FALSE, 0, FALSE)
    ELSE
    LET emb == get_embeddings(n_chunks, fail_at) IN
    IF emb.embeddings = 0
    THEN Outcome(FALSE, s, c1, info.doc_id, FALSE, emb.calls,
                 EmbeddingRaises(n_chunks, fail_at))
    ELSE
    LET s1 == DocumentStore_delete_document(s, info.doc_id).store
        up == upsert_chunks(s1, ChunkMeta(info), n_chunks, emb.embeddings)
    IN
    IF ~up.ok
    THEN Outcome(FALSE, up.store, c1, info.doc_id, FALSE, emb.calls,
                 EmbeddingRaises(n_chunks, fail_at))
    ELSE Outcome(TRUE, up.store,
                 save_doc_meta(c1, info.doc_id, DocMeta(info, n_chunks)),
                 info.doc_id, FALSE, emb.calls,
                 EmbeddingRaises(n_chunks, fail_at))

\* EnhancedDocumentPipeline.delete_document
delete_document(fs, s, c, file_path, watch_dir) ==
    LET info == get_file_info(fs, file_path, watch_dir) IN
    IF ~info.ok THEN Outcome(FALSE, s, c, NoDoc, FALSE, 0, FALSE)
    ELSE
    LET del == DocumentStore_delete_document(s, info.doc_id) IN
    Outcome(TRUE, del.store, delete_doc_cache(c, info.doc_id),
            info.doc_id, FALSE, 0, FALSE)

\* DocumentPipeline.delete_document, the pipeline the watcher imports
DocumentPipeline_delete_document(fs, s, c, file_path, watch_dir) ==
    LET info == get_file_info(fs, file_path, watch_dir) IN
    IF ~info.ok THEN Outcome(FALSE, s, c, NoDoc, FALSE, 0, FALSE)
    ELSE
    LET del == DocumentStore_delete_document(s, info.doc_id) IN
    Outcome(TRUE, del.store, delete_doc_cache(c, info.doc_id),
            info.doc_id, FALSE, 0, FALSE)

\* rows of the collection s stored for a relative path
RowsAt(s, relative_path) ==
    {m \in DOMAIN s : m.relative_path = relative_path}

\* The record kept of the last call: its arguments, what it returned and
\* what it did.
\*   content  : the bytes of the file when the call was made (0: no file)
\*   hit      : process_document returned at the cache check
\*   calls    : number of embedding API calls made
\*   failed   : an embedding API call raised
\*   changed  : the call changed the collection
\*   had_rows : the collection held rows for the path before the call
\*   again    : the call before was a successful process_document of the
\*              same path, and the file has the bytes it had then
\*   same_id  : the doc id computed is the one the call before computed
Called(op, path, out) ==
    [op |-> op, path |-> path, ret |-> out.ret, doc_id |-> out.doc_id,
     content |-> IF path \in DOMAIN files THEN files[path] ELSE 0,
     hit |-> out.hit, calls |-> out.calls, failed |-> out.failed,
     changed |-> out.store # store,
     had_rows |-> RowsAt(store, get_relative_path(path, WATCH_DIR)) # {},
     again |-> /\ op = "process_document"
               /\ last.op = "process_document"
               /\ last.ret
               /\ last.path = path
               /\ path \in DOMAIN files
               /\ last.content = files[path],
     same_id |-> out.doc_id = last.doc_id]

NoCall ==
    [op |-> "none", path |-> <<>>, ret |-> FALSE, doc_id |-> NoDoc,
     content |-> 0, hit |-> FALSE, calls |-> 0, failed |-> FALSE,
     changed |-> FALSE, had_rows |-> FALSE, again |-> FALSE,
     same_id |-> FALSE]

NoArgs == [op |-> "none"]
NoResult == [op |-> "none"]
NoPatches == [chat |-> <<>>, retrieve |-> <<>>]

\* ------------------------------------------------------------------------
\* The indexing service: files change, the pipeline and the CLI are called
\* ------------------------------------------------------------------------
Contents == 1..MaxContent

\* the housekeeping thread at the top of its loop
Idle ==
    [pc |-> "idle", snapshot |-> <<>>, todo |-> {}, path |-> <<>>,
     first_seen |-> 0, size1 |-> 0, t1 |-> 0, to_process |-> <<>>,
     judged |-> <<>>]

Init ==
    /\ files = [p \in FilePaths |-> 0]
    /\ store = EmptyBag
    /\ cache = <<>>
    /\ events = <<>>
    /\ processing_files = <<>>
    /\ now = 0
    /\ housekeeper = Idle
    /\ workers = <<>>
    /\ last = NoCall
    /\ args = NoArgs
    /\ result = NoResult
    /\ globs = NoPatches

\* a file is created or overwritten
WriteFile(p, content) ==
    /\ files[p] # content
    /\ files' = [files EXCEPT ![p] = content]
    /\ UNCHANGED <<store, cache, last, watchVars, threadVars, callVars>>

\* a file is removed
RemoveFile(p) ==
    /\ files[p] # 0
    /\ files' = [files EXCEPT ![p] = 0]
    /\ UNCHANGED <<store, cache, last, watchVars, threadVars, callVars>>

\* a file is renamed
MoveFile(p, q) ==
    /\ p # q
    /\ files[p] # 0
    /\ files' = [files EXCEPT ![p] = 0, ![q] = files[p]]
    /\ UNCHANGED <<store, cache, last, watchVars, threadVars, callVars>>

ProcessDocument(p, fail_at) ==
    LET out == process_document(files, store, cache, p, WATCH_DIR, fail_at) IN
    /\ store' = out.store
    /\ cache' = out.cache
    /\ last' = Called("process_document", p, out)
    /\ UNCHANGED <<files, watchVars, threadVars, callVars>>

DeleteDocument(p) ==
    LET out == delete_document(files, store, cache, p, WATCH_DIR) IN
    /\ store' = out.store
    /\ cache' = out.cache
    /\ last' = Called("delete_document", p, out)
    /\ UNCHANGED <<files, watchVars, threadVars, callVars>>

\* batch numbers at which an embedding call can be made to fail
FailPoints == 0..Batches(batch_size + 50)

Next ==
    \/ \E p \in FilePaths, content \in Contents : WriteFile(p, content)
    \/ \E p \in FilePaths : RemoveFile(p)
    \/ \E p \in FilePaths, q \in FilePaths : MoveFile(p, q)
    \/ \E p \in FilePaths \cup {AbsPath(<<"n.tmp">>)}, f \in FailPoints :
           ProcessDocument(p, f)
    \/ \E p \in FilePaths : DeleteDocument(p)

Spec == Init /\ [][Next]_vars

\* ------------------------------------------------------------------------
\* The watcher (watch.py): file-system events reach the DocumentHandler
\* ------------------------------------------------------------------------
\* DocumentHandler._should_ignore
_should_ignore(file_path) ==
    LET rel == get_relative_path(file_path, WATCH_DIR) IN
    \/ \E i \in 1..Len(rel) : rel[i] \in IGNORE_DIRS
    \/ startswith_dot(basename(file_path))
    \/ suffix(file_path) \notin ALLOWED_EXT

\* a watchdog event
Event(type, is_directory, src_path, dest_path) ==
    [type |-> type, is_directory |-> is_directory, src_path |-> src_path,
     dest_path |-> dest_path]

\* the file system reports a change to the observer
Emit(e) ==
    /\ Len(events) < MaxEvents
    /\ events' = Append(events, e)

WatchedWrite(p, content) ==
    /\ files[p] # content
    /\ files' = [files EXCEPT ![p] = content]
    /\ Emit(Event(IF files[p] = 0 THEN "created" ELSE "modified", FALSE, p,
                  <<>>))
    /\ UNCHANGED <<store, cache, processing_files, now, threadVars, last, callVars>>

WatchedRemove(p) ==
    /\ files[p] # 0
    /\ files' = [files EXCEPT ![p] = 0]
    /\ Emit(Event("deleted", FALSE, p, <<>>))
    /\ UNCHANGED <<store, cache, processing_files, now, threadVars, last, callVars>>

WatchedMove(p, q) ==
    /\ p # q
    /\ files[p] # 0
    /\ files' = [files EXCEPT ![p] = 0, ![q] = files[p]]
    /\ Emit(Event("moved", FALSE, p, q))
    /\ UNCHANGED <<store, cache, processing_files, now, threadVars, last, callVars>>

\* a change of a directory or of a file the watcher ignores
WatchedOther(type, is_directory, p) ==
    /\ Emit(Event(type, is_directory, p, <<>>))
    /\ UNCHANGED <<files, store, cache, processing_files, now, threadVars, last,
                   callVars>>

\* processing_files[file_path] = time.time()
Remember(pf, file_path, t) ==
    [x \in DOMAIN pf \cup {file_path} |-> IF x = file_path THEN t ELSE pf[x]]

\* what a handler call that does not reach the pipeline leaves in last
Handled(op, path) ==
    [NoCall EXCEPT !.op = op, !.path = path,
        !.had_rows = RowsAt(store, get_relative_path(path, WATCH_DIR)) # {}]

\* DocumentHandler._delete_file: the pipeline's outcome, logged and dropped
_delete_file(fs, s, c, file_path) ==
    DocumentPipeline_delete_document(fs, s, c, file_path, WATCH_DIR)

\* DocumentHandler.on_created and on_modified
on_created_or_modified(e) ==
    /\ e.type \in {"created", "modified"}
    /\ events' = Tail(events)
    /\ IF e.is_directory \/ _should_ignore(e.src_path)
       THEN UNCHANGED processing_files
       ELSE processing_files' = Remember(processing_files, e.src_path, now)
    /\ last' = Handled("on_" \o e.type, e.src_path)
    /\ UNCHANGED <<files, store, cache, now, threadVars, callVars>>

\* DocumentHandler.on_deleted
on_deleted(e) ==
    /\ e.type = "deleted"
    /\ events' = Tail(events)
    /\ IF e.is_directory \/ _should_ignore(e.src_path)
       THEN /\ UNCHANGED <<store, cache>>
            /\ last' = Handled("on_deleted", e.src_path)
       ELSE LET out == _delete_file(files, store, cache, e.src_path) IN
            /\ store' = out.store
            /\ cache' = out.cache
            /\ last' = Called("on_deleted", e.src_path, out)
    /\ UNCHANGED <<files, processing_files, now, threadVars, callVars>>

\* DocumentHandler.on_moved
on_moved(e) ==
    /\ e.type = "moved"
    /\ events' = Tail(events)
    /\ IF e.is_directory
       THEN /\ UNCHANGED <<store, cache, processing_files>>
            /\ last' = Handled("on_moved", e.src_path)
       ELSE /\ IF _should_ignore(e.src_path)
               THEN /\ UNCHANGED <<store, cache>>
                    /\ last' = Handled("on_moved", e.src_path)
               ELSE LET out == _delete_file(files, store, cache, e.src_path)
                    IN /\ store' = out.store
                       /\ cache' = out.cache
                       /\ last' = Called("on_moved", e.src_path, out)
            /\ IF ~_should_ignore(e.dest_path) /\ files[e.dest_path] # 0
               THEN processing_files' =
                        Remember(processing_files, e.dest_path, now)
               ELSE UNCHANGED processing_files
    /\ UNCHANGED <<files, now, threadVars, callVars>>

Tick ==
    /\ now < MaxClock
    /\ now' = now + 1
    /\ UNCHANGED <<files, store, cache, events, processing_files, threadVars, last,
                   callVars>>

\* the pipeline indexes a file of the watch directory
WatchProcess(p) ==
    LET out == process_document(files, store, cache, p, WATCH_DIR, 0) IN
    /\ store' = out.store
    /\ cache' = out.cache
    /\ last' = Called("process_document", p, out)
    /\ UNCHANGED <<files, events, processing_files, now, threadVars, callVars>>

NextWatch ==
    \/ \E p \in FilePaths, content \in Contents : WatchedWrite(p, content)
    \/ \E p \in FilePaths : WatchedRemove(p)
    \/ \E p \in FilePaths, q \in FilePaths : WatchedMove(p, q)
    \/ \E p \in IgnoredPaths : WatchedOther("deleted", FALSE, p)
    \/ \E t \in {"created", "deleted", "moved"} :
           WatchedOther(t, TRUE, AbsPath(<<"sub">>))
    \/ events # <<>> /\ on_created_or_modified(Head(events))
    \/ events # <<>> /\ on_deleted(Head(events))
    \/ events # <<>> /\ on_moved(Head(events))
    \/ Tick
    \/ \E p \in FilePaths : WatchProcess(p)

SpecWatch == Init /\ [][NextWatch]_vars

\* ------------------------------------------------------------------------
\* get_file_info as a function of its inputs: a file before and after a
\* change of its name, of its bytes or of the place of the watch directory
\* ------------------------------------------------------------------------
WatchDirs == {WATCH_DIR, <<"srv", "Database">>}
IdentityRels == FileRels \cup {<<"sub", "a.txt">>}

\* one file on disk: the watch directory, the path below it, the bytes
FileInputs ==
    [watch_dir : WatchDirs, rel : IdentityRels, content : Contents]

\* get_file_info(file_path, watch_dir) for one of the inputs
InfoOf(f) ==
    LET file_path == f.watch_dir \o f.rel IN
    get_file_info([x \in {file_path} |-> f.content], file_path, f.watch_dir)

InitIdentity ==
    /\ files = [p \in FilePaths |-> 0]
    /\ store = EmptyBag
    /\ cache = <<>>
    /\ events = <<>>
    /\ processing_files = <<>>
    /\ now = 0
    /\ housekeeper = Idle
    /\ workers = <<>>
    /\ last = NoCall
    /\ args \in [op : {"get_file_info"}, before : FileInputs,
                  after : FileInputs]
    /\ result = NoResult
    /\ globs = NoPatches

GetFileInfo ==
    /\ result = NoResult
    /\ result' = [op |-> "get_file_info", before |-> InfoOf(args.before),
                  after |-> InfoOf(args.after)]
    /\ UNCHANGED <<files, store, cache, watchVars, threadVars, last, args, globs>>

NextIdentity == GetFileInfo

SpecIdentity == InitIdentity /\ [][NextIdentity]_vars

\* ------------------------------------------------------------------------
\* The CacheManager on its own: any caller, any metadata dict, and a
\* process that dies inside save_doc_meta
\* ------------------------------------------------------------------------
CacheHashes == {compute_content_hash(content) : content \in Contents}
CacheDocIds == {compute_doc_id(<<"a.txt">>, h) : h \in CacheHashes}

\* the dicts a caller hands to save_doc_meta: {} , {content_hash},
\* {content_hash, processing_complete}; a key that is absent keeps a
\* filler value that is never read
MetaDicts ==
    {[kind |-> "meta", keys |-> {}, doc_id |-> NoDoc,
      content_hash |-> sha256(0), chunk_count |-> 0,
      processing_complete |-> "false"]}
    \cup [kind : {"meta"}, keys : {{"content_hash"}}, doc_id : {NoDoc},
          content_hash : CacheHashes, chunk_count : {0},
          processing_complete : {"false"}]
    \cup [kind : {"meta"}, keys : {{"content_hash", "processing_complete"}},
          doc_id : {NoDoc}, content_hash : CacheHashes, chunk_count : {0},
          processing_complete : {"true", "false"}]

\* CacheManager.save_doc_meta, completed
SaveDocMeta(doc_id, meta) ==
    /\ cache' = save_doc_meta(get_doc_cache_dir(cache, doc_id), doc_id, meta)
    /\ result' = NoResult
    /\ UNCHANGED <<files, store, watchVars, threadVars, last, args, globs>>

\* the process dies between open(meta_path, 'w') and the end of json.dump
SaveDocMetaCrash(doc_id) ==
    /\ cache' = save_doc_meta(get_doc_cache_dir(cache, doc_id), doc_id,
                              Partial)
    /\ result' = NoResult
    /\ UNCHANGED <<files, store, watchVars, threadVars, last, args, globs>>

\* CacheManager.delete_doc_cache
DeleteDocCache(doc_id) ==
    /\ cache' = delete_doc_cache(get_doc_cache_dir(cache, doc_id), doc_id)
    /\ result' = NoResult
    /\ UNCHANGED <<files, store, watchVars, threadVars, last, args, globs>>

\* CacheManager.has_cached_data; load_doc_meta creates the directory
HasCachedData(doc_id, content_hash) ==
    /\ cache' = get_doc_cache_dir(cache, doc_id)
    /\ result' = [op |-> "has_cached_data", doc_id |-> doc_id,
                  content_hash |-> content_hash,
                  ret |-> has_cached_data(cache, doc_id, content_hash)]
    /\ UNCHANGED <<files, store, watchVars, threadVars, last, args, globs>>

NextCache ==
    \/ \E d \in CacheDocIds, meta \in MetaDicts : SaveDocMeta(d, meta)
    \/ \E d \in CacheDocIds : SaveDocMetaCrash(d)
    \/ \E d \in CacheDocIds : DeleteDocCache(d)
    \/ \E d \in CacheDocIds, h \in CacheHashes : HasCachedData(d, h)

SpecCache == Init /\ [][NextCache]_vars

\* ------------------------------------------------------------------------
\* Text (quote_facts_autopatch.py)
\* ------------------------------------------------------------------------
\* A text is a sequence of tokens with one blank between neighbours:
\*   "w"  a lower-case word        "W"  a capitalised word
\*   "w." a word ending in . ! ?   "9"  a number
\*   "9." a number ending in .     "d"  a unit (days, months, %, ...)
\*   "D"  a capitalised unit       "d." a unit ending in . ! ?
\*   "_"  further white space
Tokens == {"w", "W", "w.", "9", "9.", "d", "D", "d.", "_"}
Terminated(tok) == tok \in {"w.", "9.", "d."}
StartsUpperOrDigit(tok) == tok \in {"W", "9", "9.", "D"}
IsNumber(tok) == tok = "9"
IsUnit(tok) == tok \in {"d", "D", "d."}

Min(S) == CHOOSE x \in S : \A y \in S : x <= y
Max(S) == CHOOSE x \in S : \A y \in S : x >= y

\* the first token after position i that is not white space, 0 if none
NextWord(t, i) ==
    LET later == {j \in (i + 1)..Len(t) : t[j] # "_"} IN
    IF later = {} THEN 0 ELSE Min(later)

\* where (?<=[.!?])\s+(?=[A-Z0-9]) matches: after token i
SplitPoints(t) ==
    {i \in 1..Len(t) : /\ Terminated(t[i])
                       /\ NextWord(t, i) # 0
                       /\ StartsUpperOrDigit(t[NextWord(t, i)])}

RECURSIVE _sentences(_)
\* re.split of the text at the split points; the white space goes
_sentences(t) ==
    IF SplitPoints(t) = {} THEN <<t>>
    ELSE LET i == Min(SplitPoints(t)) IN
         <<SubSeq(t, 1, i)>> \o _sentences(SubSeq(t, NextWord(t, i), Len(t)))

\* NUM_RX.search(s): a number, optional white space, a unit
NUM_RX_search(s) ==
    \E i \in 1..Len(s) : /\ IsNumber(s[i])
                         /\ NextWord(s, i) # 0
                         /\ IsUnit(s[NextWord(s, i)])

\* str.strip()
strip(s) ==
    LET words == {i \in 1..Len(s) : s[i] # "_"} IN
    IF words = {} THEN <<>> ELSE SubSeq(s, Min(words), Max(words))

NoFact == [found |-> FALSE, s |-> <<>>]

\* a variant that keeps the last sentence with a number and a unit
_find_fact_sentence_last(text) ==
    LET ss == _sentences(text)
        hits == {i \in 1..Len(ss) : NUM_RX_search(ss[i])}
    IN IF hits = {} THEN NoFact
       ELSE [found |-> TRUE, s |-> strip(ss[Max(hits)])]

\* the first sentence NUM_RX matches, stripped; None if there is none
_find_fact_sentence(text) ==
    LET ss == _sentences(text)
        hits == {i \in 1..Len(ss) : NUM_RX_search(ss[i])}
    IN IF hits = {} THEN NoFact
       ELSE [found |-> TRUE, s |-> strip(ss[Min(hits)])]

\* TRIGGER_RX.search(query), a substring search, on the queries of the model
Queries ==
    {"how long is probation", "what is the capital", "who signs the form"}
TRIGGER_RX_search(query) ==
    query \in {"how long is probation", "what is the capital"}

\* ------------------------------------------------------------------------
\* Payloads of the chat route and the two wrappers around it
\* ------------------------------------------------------------------------
\* A payload is a dict (kind "dict", keys: the keys present; a key that is
\* absent keeps a filler value that is never read) or something else.
\* A response is a sequence of pieces of text, a confidence is in 1/100.
Payload(kind, keys, response, answer, sources, confidence, rationale) ==
    [kind |-> kind, keys |-> keys, response |-> response, answer |-> answer,
     sources |-> sources, confidence |-> confidence,
     confidence_rationale |-> rationale]

_MIN == 1
_MSG == <<"I couldn't find a grounded answer in the indexed documents.">>
CONFIDENCE_FLOOR == 62

\* _looks_like_resp
_looks_like_resp(x) ==
    x.kind = "dict" /\ ("response" \in x.keys \/ "answer" \in x.keys)

\* _normalize
_normalize(resp) ==
    LET r1 == IF "response" \notin resp.keys /\ "answer" \in resp.keys
              THEN [resp EXCEPT !.response = resp.answer,
                                !.keys = resp.keys \cup {"response"}]
              ELSE resp
    IN IF "sources" \notin r1.keys
       THEN [r1 EXCEPT !.sources = 0, !.keys = r1.keys \cup {"sources"}]
       ELSE r1

\* the payload the guard puts in place of an answer without sources
NoAnswer ==
    Payload("dict",
            {"response", "sources", "confidence", "confidence_rationale",
             "cache_hit"},
            _MSG, <<>>, 0, 0, "No supporting sources retrieved.")

\* require_sources_autopatch: wrapped, given what the wrapped route returned
require_sources_wrapped(out) ==
    IF ~_looks_like_resp(out) THEN out
    ELSE LET n == _normalize(out) IN
         IF n.sources >= _MIN THEN n ELSE NoAnswer

\* _name and the formatted _page of a candidate's metadata
_name(m) == IF "file_name" \in m.keys THEN m.file_name ELSE "source"
_page(m) == IF "page" \in m.keys THEN ToString(m.page) ELSE "None"

\* f'Direct quote from {_name(meta)} (p.{_page(meta)}): "{fact}"\n\n'
prepend(meta, fact) ==
    <<"Direct quote from ", _name(meta), " (p.", _page(meta), "): \"">>
        \o fact \o <<"\"\n\n">>

\* quote_facts_autopatch: wrapped, given what the wrapped route returned
\* and what the retriever returns for the query
quote_facts_wrapped(query, out, cands) ==
    IF ~TRIGGER_RX_search(query) THEN out
    ELSE IF ~cands.is_list THEN out
    ELSE LET hits == {i \in 1..Len(cands.items) :
                        _find_fact_sentence(cands.items[i].text).found}
         IN IF hits = {} THEN out
            ELSE IF out.kind # "dict" THEN out
            ELSE
              LET c == cands.items[Min(hits)]
                  fact == _find_fact_sentence(c.text).s
                  resp == IF "response" \in out.keys /\ out.response # <<>>
                          THEN out.response
                          ELSE IF "answer" \in out.keys THEN out.answer
                          ELSE <<>>
                  quoted == [out EXCEPT
                               !.response = prepend(c.metadata, fact) \o resp,
                               !.keys = out.keys \cup {"response"}]
                  confidence == IF "confidence" \in out.keys
                                THEN out.confidence ELSE 0
              IN IF confidence < CONFIDENCE_FLOOR
                 THEN [quoted EXCEPT
                         !.confidence = CONFIDENCE_FLOOR,
                         !.confidence_rationale =
                             "Contains direct numeric quote from source.",
                         !.keys = quoted.keys \cup
                             {"confidence", "confidence_rationale"}]
                 ELSE quoted

\* ------------------------------------------------------------------------
\* The chat route: the wrappers are installed at start-up in some order,
\* then the route is called
\* ------------------------------------------------------------------------
MaxPool == 2

Confidences == {50, CONFIDENCE_FLOOR, 90}
Answer == <<"Probation is covered in the handbook.">>

\* what the unwrapped route may return
RoutePayloads ==
    {Payload("dict", {"response", "sources", "confidence"}, Answer, <<>>,
             n, conf, "") : n \in 0.._MIN, conf \in Confidences}
    \cup {Payload("dict", {"answer", "sources", "confidence"}, <<>>, Answer,
                  n, conf, "") : n \in 0.._MIN, conf \in Confidences}
    \cup {Payload("dict", {"answer"}, <<>>, Answer, 0, 0, ""),
          Payload("dict", {"detail"}, <<>>, <<>>, 0, 0, ""),
          Payload("other", {}, <<>>, <<>>, 0, 0, "")}

\* the texts of the chunks in the index
Texts ==
    {<<"W", "w", "w.">>,
     <<"W", "w.", "9", "d.">>,
     <<"_", "w", "9", "_", "d", "_">>,
     <<"W", "9.", "D", "w.">>,
     <<"w", "9", "d.", "W", "9", "D">>}

\* metadata with a file name and a page, and metadata with neither
Cited == [keys |-> {"file_name", "page"}, file_name |-> "handbook.pdf",
          page |-> 4]
Uncited == [keys |-> {}, file_name |-> "", page |-> 0]

Candidates ==
    [text : Texts, metadata : {Cited}]
    \cup {[text |-> <<"W", "w.", "9", "d.">>, metadata |-> Uncited]}

\* what the retriever returns: a list of candidates, or something else
Pools ==
    {[is_list |-> FALSE, items |-> <<>>]}
    \cup {[is_list |-> TRUE, items |-> items] :
            items \in UNION {[1..n -> Candidates] : n \in 0..MaxPool}}

Installed(name) == \E i \in 1..Len(globs.chat) : globs.chat[i] = name

\* require_sources_autopatch.apply_patch(globals())
apply_patch_require_sources ==
    /\ ~Installed("require_sources")
    /\ globs' = [globs EXCEPT !.chat = Append(@, "require_sources")]
    /\ args' = NoArgs
    /\ result' = NoResult
    /\ UNCHANGED <<files, store, cache, watchVars, threadVars, last>>

\* quote_facts_autopatch.apply_patch(globals())
apply_patch_quote_facts ==
    /\ ~Installed("quote_facts")
    /\ globs' = [globs EXCEPT !.chat = Append(@, "quote_facts")]
    /\ args' = NoArgs
    /\ result' = NoResult
    /\ UNCHANGED <<files, store, cache, watchVars, threadVars, last>>

RECURSIVE Through(_, _, _, _, _)
\* what the first n wrappers around the route return
Through(chain, n, query, out, pool) ==
    IF n = 0 THEN out
    ELSE LET inner == Through(chain, n - 1, query, out, pool) IN
         IF chain[n] = "require_sources" THEN require_sources_wrapped(inner)
         ELSE quote_facts_wrapped(query, inner, pool)

\* a request: globs["chat"](query), where the route itself returns out and
\* the retriever returns pool. The wrappers keep no state between requests,
\* so one request is followed for each way of installing them.
Chat(query, out, pool) ==
    LET chain == globs.chat
        at == {i \in 1..Len(chain) : chain[i] = "quote_facts"}
    IN /\ result = NoResult
       /\ args' = [op |-> "chat", query |-> query, out |-> out,
                   pool |-> pool]
       /\ result' =
            [op |-> "chat",
             final |-> Through(chain, Len(chain), query, out, pool),
             quoting |-> at # {},
             quote_in |-> IF at = {} THEN out
                          ELSE Through(chain, Min(at) - 1, query, out, pool),
             quote_out |-> IF at = {} THEN out
                           ELSE Through(chain, Min(at), query, out, pool)]
       /\ UNCHANGED <<files, store, cache, watchVars, threadVars, last, globs>>

NextChat ==
    \/ apply_patch_require_sources
    \/ apply_patch_quote_facts
    \/ \E query \in Queries, out \in RoutePayloads, pool \in Pools :
           Chat(query, out, pool)

SpecChat == Init /\ [][NextChat]_vars

\* ------------------------------------------------------------------------
\* Retrieval (hybrid_autopatch.py, crossrefs_autopatch.py)
\* ------------------------------------------------------------------------
\* A candidate is a chunk of the index: its id, the file_name and page of
\* its metadata, the tokens of its text (sig), the fused score the reranker
\* gives it, and the reference phrases _REF_PATTERNS find in its text.
Chunk(id, file_name, page, sig, fused, refs) ==
    [id |-> id, file_name |-> file_name, page |-> page, sig |-> sig,
     fused |-> fused, refs |-> refs]

IndexChunks ==
    {Chunk(1, "a.pdf", 1, {1, 2, 3}, 9, <<"see section 4">>),
     Chunk(2, "a.pdf", 1, {4, 5}, 8, <<>>),
     Chunk(3, "a.pdf", 1, {6, 7}, 7, <<>>),
     Chunk(4, "b.pdf", 2, {4, 5}, 6, <<"see page 2", "see table A">>)}

max_per == 2
thr == 88
LEXA_K_MAX == 18
max_refs == 2
per_ref_pull == 2
top_docs == 6

\* s[:n]
Take(s, n) == SubSeq(s, 1, IF n < Len(s) THEN n ELSE Len(s))

\* the retriever before any patch: the hits the index has for the query,
\* best first, at most k of them
retrieve(index, query, k) ==
    Take(IF query = "main" THEN index.main ELSE index.ref, k)

RECURSIVE sort_by_score(_)
\* list.sort(key=score, reverse=True): stable
sort_by_score(s) ==
    IF s = <<>> THEN <<>>
    ELSE LET rest == sort_by_score(SubSeq(s, 1, Len(s) - 1))
             x == s[Len(s)]
             n == Cardinality({i \in 1..Len(rest) : rest[i].fused >= x.fused})
         IN SubSeq(rest, 1, n) \o <<x>> \o SubSeq(rest, n + 1, Len(rest))

\* a variant that finds no two chunks similar
near_dup_never(sig, ssig) == FALSE

\* inter / uni >= thr
near_dup(sig, ssig) ==
    /\ sig # {} /\ ssig # {}
    /\ 100 * Cardinality(sig \cap ssig) >= thr * Cardinality(sig \cup ssig)

RECURSIVE diversity(_, _, _, _)
\* the loop of the diversity block over ranked[i..], with selected so far
diversity(ranked, i, selected, k) ==
    IF i > Len(ranked) THEN selected
    ELSE LET c == ranked[i]
             seen == Cardinality({j \in 1..Len(selected) :
                        /\ selected[j].file_name = c.file_name
                        /\ selected[j].page = c.page})
             is_dup == \E j \in 1..Len(selected) :
                          near_dup(c.sig, selected[j].sig)
         IN IF seen >= max_per \/ is_dup
            THEN diversity(ranked, i + 1, selected, k)
            ELSE IF Len(selected) + 1 >= k THEN Append(selected, c)
            ELSE diversity(ranked, i + 1, Append(selected, c), k)

RECURSIVE diversity_dropped(_, _, _, _)
\* the same loop, keeping for every candidate it leaves out as a near
\* duplicate the selected chunk sc at which the inner loop breaks
diversity_dropped(ranked, i, selected, k) ==
    IF i > Len(ranked) THEN {}
    ELSE LET c == ranked[i]
             seen == Cardinality({j \in 1..Len(selected) :
                        /\ selected[j].file_name = c.file_name
                        /\ selected[j].page = c.page})
             dups == {j \in 1..Len(selected) :
                        near_dup(c.sig, selected[j].sig)}
         IN IF seen >= max_per
            THEN diversity_dropped(ranked, i + 1, selected, k)
            ELSE IF dups # {}
            THEN {[c |-> c, sc |-> selected[Min(dups)]]}
                   \cup diversity_dropped(ranked, i + 1, selected, k)
            ELSE IF Len(selected) + 1 >= k THEN {}
            ELSE diversity_dropped(ranked, i + 1, Append(selected, c), k)

\* hybrid_rerank: fuse, sort, diversity block, cut at k
hybrid_rerank(query, candidates, k) ==
    IF candidates = <<>> THEN candidates
    ELSE Take(diversity(sort_by_score(candidates), 1, <<>>, k), k)

\* the first element of every id
dedup_ids(s) ==
    SelectSeq([i \in 1..Len(s) |->
                 [c |-> s[i],
                  first |-> \A j \in 1..(i - 1) : s[j].id # s[i].id]],
              LAMBDA e : e.first)

RECURSIVE Flatten(_)
Flatten(ss) == IF ss = <<>> THEN <<>> ELSE Head(ss) \o Flatten(Tail(ss))

\* _extract_refs(text, max_refs)
_extract_refs(c, limit) == Take(c.refs, limit)

RECURSIVE retriever(_, _, _, _, _)
\* globs["retrieve"] after the first n patches of the chain
retriever(chain, n, index, query, k) ==
    LET bigk == IF k > LEXA_K_MAX THEN k ELSE LEXA_K_MAX
        orig(q, kk) == retriever(chain, n - 1, index, q, kk)
    IN
    IF n = 0 THEN retrieve(index, query, k)
    ELSE IF chain[n] = "hybrid"
    THEN \* hybrid_autopatch: wrapped
         hybrid_rerank(query, orig(query, bigk), k)
    ELSE \* crossrefs_autopatch: wrapped
         LET cands == orig(query, bigk)
             top == Take(cands, top_docs)
             pulled(c) ==
                 LET refs == _extract_refs(c, max_refs) IN
                 Flatten([r \in 1..Len(refs) |->
                     SelectSeq(orig(refs[r], per_ref_pull),
                               LAMBDA p : p.file_name = c.file_name)])
             extras == dedup_ids(Flatten([i \in 1..Len(top) |->
                                            pulled(top[i])]))
             pool == cands \o [i \in 1..Len(extras) |-> extras[i].c]
         IN IF cands = <<>> THEN cands
            ELSE Take(sort_by_score(pool), k)

\* ------------------------------------------------------------------------
\* The retriever: the patches are installed in some order, then a query
\* is answered
\* ------------------------------------------------------------------------
MaxHits == 2
MaxK == 3

\* lists of distinct chunks of the index
Hits ==
    {h \in UNION {[1..n -> IndexChunks] : n \in 0..MaxHits} :
        \A i \in 1..Len(h), j \in 1..Len(h) : i # j => h[i] # h[j]}

PatchedRetriever(name) ==
    \E i \in 1..Len(globs.retrieve) : globs.retrieve[i] = name

\* hybrid_autopatch.apply_patch(globals())
apply_patch_hybrid ==
    /\ ~PatchedRetriever("hybrid")
    /\ globs' = [globs EXCEPT !.retrieve = Append(@, "hybrid")]
    /\ args' = NoArgs
    /\ result' = NoResult
    /\ UNCHANGED <<files, store, cache, watchVars, threadVars, last>>

\* crossrefs_autopatch.apply_patch(globals())
apply_patch_crossrefs ==
    /\ ~PatchedRetriever("crossrefs")
    /\ globs' = [globs EXCEPT !.retrieve = Append(@, "crossrefs")]
    /\ args' = NoArgs
    /\ result' = NoResult
    /\ UNCHANGED <<files, store, cache, watchVars, threadVars, last>>

\* globs["retrieve"]("main", k=k) over an index that has the hits main for
\* the query and the hits ref for a reference phrase. The patches keep no
\* state between queries, so one query is followed for each way of
\* installing them.
Retrieve(k, main, ref) ==
    /\ result = NoResult
    /\ args' = [op |-> "retrieve", k |-> k,
                index |-> [main |-> main, ref |-> ref]]
    /\ result' = [op |-> "retrieve",
                  ret |-> retriever(globs.retrieve, Len(globs.retrieve),
                                    [main |-> main, ref |-> ref], "main", k)]
    /\ UNCHANGED <<files, store, cache, watchVars, threadVars, last, globs>>

NextRetrieval ==
    \/ apply_patch_hybrid
    \/ apply_patch_crossrefs
    \/ \E k \in 1..MaxK, main \in Hits, ref \in Hits : Retrieve(k, main, ref)

SpecRetrieval == Init /\ [][NextRetrieval]_vars

\* ------------------------------------------------------------------------
\* PDF pages (pipeline_fixed.py, pipeline.py, ocr.py)
\* ------------------------------------------------------------------------
\* A page text is known by where it came from, its number of words
\* (len(text.split())) and whether it is made of one-letter "words" or is a
\* bare page number (what _is_image_only_page looks for).
OCR_WORD_THRESHOLD == 50
IMAGE_ONLY_WORDS == 5

EmptyText == [src |-> "empty", words |-> 0, artifacts |-> FALSE]
WordCounts ==
    {IMAGE_ONLY_WORDS - 1, IMAGE_ONLY_WORDS, OCR_WORD_THRESHOLD - 1,
     OCR_WORD_THRESHOLD}
TextsFrom(src) ==
    {EmptyText} \cup [src : {src}, words : WordCounts, artifacts : BOOLEAN]

\* an extractor that raised
Raised == [src |-> "raised", words |-> 0, artifacts |-> FALSE]

\* the page files of the cache: page-NNNN.ocr.txt and page-NNNN.tables.json
NoPage == [cached |-> FALSE, text |-> EmptyText, tables |-> 0]
CachedPage(text, tables) ==
    [cached |-> TRUE, text |-> text, tables |-> tables]

\* CONFIG as read from the environment at start-up
Configs ==
    [DISABLE_OCR : BOOLEAN, DISABLE_TABLES : BOOLEAN,
     SKIP_IMAGE_ONLY : BOOLEAN]

\* _is_image_only_page
_is_image_only_page(cfg, text, word_count) ==
    IF ~cfg.SKIP_IMAGE_ONLY THEN FALSE
    ELSE IF word_count < IMAGE_ONLY_WORDS THEN TRUE
    ELSE text.artifacts

\* a variant that also takes an OCR text of the same length
ocr_improved_or_equal(ocr_word_count, word_count) ==
    ocr_word_count >= word_count

\* if ocr_word_count > word_count
ocr_improved(ocr_word_count, word_count) == ocr_word_count > word_count

\* what a page call leaves: raised or (text, tables), and the page files
PageOutcome(raised, text, tables, page) ==
    [raised |-> raised, text |-> text, tables |-> tables, page |-> page]

\* EnhancedDocumentPipeline.process_pdf_page. in: the page files found
\* (cached), what PyMuPDF gives (fast), what OCR gives (ocr), what the
\* table extractor gives (tabs: a count, or -1 when it raises), and
\* whether writing the page files fails (save_fails)
process_pdf_page(cfg, in) ==
    IF in.cached.cached
    THEN PageOutcome(FALSE, in.cached.text, in.cached.tables, in.cached)
    ELSE
      LET fast_text == IF in.fast = Raised THEN EmptyText ELSE in.fast
          word_count == fast_text.words
          use_ocr == /\ ~cfg.DISABLE_OCR
                     /\ word_count < OCR_WORD_THRESHOLD
                     /\ in.ocr # Raised
                     /\ ocr_improved(in.ocr.words, word_count)
          page_text == IF use_ocr THEN in.ocr ELSE fast_text
          tables == IF cfg.DISABLE_TABLES \/ in.tabs < 0 THEN 0 ELSE in.tabs
      IN IF _is_image_only_page(cfg, page_text, page_text.words)
         THEN PageOutcome(FALSE, EmptyText, 0, in.cached)
         ELSE IF in.save_fails
         THEN PageOutcome(TRUE, EmptyText, 0, in.cached)
         ELSE PageOutcome(FALSE, page_text, tables,
                          CachedPage(page_text, tables))

\* DocumentPipeline.process_pdf_page: no flags, OCR and the table extractor
\* are called outside any try
DocumentPipeline_process_pdf_page(in) ==
    IF in.cached.cached
    THEN PageOutcome(FALSE, in.cached.text, in.cached.tables, in.cached)
    ELSE
      LET fast_text == IF in.fast = Raised THEN EmptyText ELSE in.fast
          word_count == fast_text.words
          call_ocr == word_count < OCR_WORD_THRESHOLD
          page_text == IF call_ocr /\ in.ocr # Raised
                          /\ ocr_improved(in.ocr.words, word_count)
                       THEN in.ocr ELSE fast_text
      IN IF (call_ocr /\ in.ocr = Raised) \/ in.tabs < 0 \/ in.save_fails
         THEN PageOutcome(TRUE, EmptyText, 0, in.cached)
         ELSE PageOutcome(FALSE, page_text, in.tabs,
                          CachedPage(page_text, in.tabs))

\* ------------------------------------------------------------------------
\* process_pdf_page as a function of what the page and the cache hold
\* ------------------------------------------------------------------------
PageInputs ==
    [cached : {NoPage, CachedPage([src |-> "ocr", words |-> OCR_WORD_THRESHOLD,
                                   artifacts |-> FALSE], 1)},
     fast : TextsFrom("fast") \cup {Raised},
     ocr : TextsFrom("ocr") \cup {Raised},
     tabs : {-1, 0, 1},
     save_fails : BOOLEAN]

InitPage ==
    /\ files = [p \in FilePaths |-> 0]
    /\ store = EmptyBag
    /\ cache = <<>>
    /\ events = <<>>
    /\ processing_files = <<>>
    /\ now = 0
    /\ housekeeper = Idle
    /\ workers = <<>>
    /\ last = NoCall
    /\ args \in [op : {"process_pdf_page"}, cfg : Configs, in : PageInputs]
    /\ result = NoResult
    /\ globs = NoPatches

ProcessPdfPage ==
    /\ result = NoResult
    /\ result' = [op |-> "process_pdf_page",
                  fixed |-> process_pdf_page(args.cfg, args.in),
                  plain |-> DocumentPipeline_process_pdf_page(args.in)]
    /\ UNCHANGED <<files, store, cache, watchVars, threadVars, last, args, globs>>

NextPage == ProcessPdfPage

SpecPage == InitPage /\ [][NextPage]_vars

\* ------------------------------------------------------------------------
\* The smart chunker (lexa_app/ingest/smart_chunker.py, section_rules.py)
\* ------------------------------------------------------------------------
\* A text is its lines; a line is known by what the rules see in it (a step
\* line, a section header or neither), its number of characters and whether
\* it ends with one of ".!?". A chunk is known by its number of characters,
\* whether it ends with " (cont.)" and its chunk_type.
CHUNK_MIN_CHARS == 180
CHUNK_MAX_CHARS == 1100
OVERLAP_TOKENS == 80
MERGE_NEARBY == TRUE
CONT_LEN == 8
MaxLines == 3

LineLens == {100, 300, 800, 1200}
Lines == [kind : {"text", "step", "header"}, len : LineLens, ends : BOOLEAN]
EmptyLine == [kind |-> "text", len |-> 0, ends |-> FALSE]
TextChunk(len, cont, chunk_type) ==
    [len |-> len, cont |-> cont, chunk_type |-> chunk_type]

RECURSIVE sum(_)
sum(lens) == IF lens = <<>> THEN 0 ELSE Head(lens) + sum(Tail(lens))

\* len(sep.join(parts)) for a separator of one character
join_len(lens) == IF lens = <<>> THEN 0 ELSE sum(lens) + Len(lens) - 1

lens_of(lines) == [i \in DOMAIN lines |-> lines[i].len]

\* len('\n'.join(lines).strip()): the lines of the input hold no white
\* space at their ends, so strip() removes the empty lines in front
RECURSIVE strip_len(_)
strip_len(lines) ==
    IF lines = <<>> THEN 0
    ELSE IF Head(lines).len = 0 THEN strip_len(Tail(lines))
    ELSE join_len(lens_of(lines))

\* re.split(r'(?<=[.!?])\s+', text): the lengths of the sentences
RECURSIVE split_sentences(_, _)
split_sentences(lines, cur) ==
    IF lines = <<>> THEN (IF cur < 0 THEN <<>> ELSE <<cur>>)
    ELSE LET l == Head(lines)
             n == IF cur < 0 THEN l.len ELSE cur + 1 + l.len
         IN IF l.ends /\ Tail(lines) # <<>>
            THEN <<n>> \o split_sentences(Tail(lines), -1)
            ELSE split_sentences(Tail(lines), n)

\* the loop of chunk_by_size and its "Save final chunk"
RECURSIVE chunk_by_size_loop(_, _, _, _, _)
chunk_by_size_loop(sentences, chunks, current_chunk, current_length, t) ==
    LET save == IF current_chunk # <<>>
                   /\ join_len(current_chunk) >= CHUNK_MIN_CHARS
                THEN Append(chunks, TextChunk(join_len(current_chunk), FALSE, t))
                ELSE chunks
    IN IF sentences = <<>> THEN save
       ELSE LET sentence == Head(sentences)
            IN IF current_length + sentence > CHUNK_MAX_CHARS
                  /\ current_chunk # <<>>
               THEN LET next == IF OVERLAP_TOKENS > 0 /\ Len(current_chunk) > 1
                                THEN <<current_chunk[Len(current_chunk)],
                                       sentence>>
                                ELSE <<sentence>>
                    IN chunk_by_size_loop(Tail(sentences), save, next,
                                          sum(next), t)
               ELSE chunk_by_size_loop(Tail(sentences), chunks,
                                       Append(current_chunk, sentence),
                                       current_length + sentence, t)

\* chunk_by_size
chunk_by_size(lines, chunk_type) ==
    IF join_len(lens_of(lines)) <= CHUNK_MAX_CHARS
    THEN <<TextChunk(join_len(lens_of(lines)), FALSE, chunk_type)>>
    ELSE chunk_by_size_loop(split_sentences(lines, -1), <<>>, <<>>, 0,
                            chunk_type)

\* index of the first character of line k in '\n'.join(lines)
line_start(lines, k) == sum(SubSeq(lens_of(lines), 1, k - 1)) + (k - 1)

\* the i with text[i] in '.!?' and text[i + 1].isspace()
boundaries(lines) ==
    {line_start(lines, k) + lines[k].len - 1 :
        k \in {j \in 1..(Len(lines) - 1) : lines[j].ends /\ lines[j].len > 0}}

\* find_sentence_boundary; 0 stands for None
find_sentence_boundary(bounds, text_len, target_pos) ==
    IF target_pos >= text_len THEN 0
    ELSE LET found == {i \in bounds :
                          /\ i <= target_pos
                          /\ i > Max({0, target_pos - 200})}
         IN IF found = {} THEN 0
            ELSE (CHOOSE i \in found : \A j \in found : j <= i) + 1

\* [chunk_text[break_point:]]
remainder(lines, break_point) ==
    LET k == CHOOSE j \in 1..Len(lines) :
                 line_start(lines, j) + lines[j].len = break_point
    IN <<EmptyLine>> \o SubSeq(lines, k + 1, Len(lines))

\* chunk_procedure_steps
RECURSIVE chunk_procedure_steps_loop(_, _, _)
chunk_procedure_steps_loop(lines, chunks, current_chunk) ==
    LET save == IF current_chunk # <<>>
                   /\ strip_len(current_chunk) >= CHUNK_MIN_CHARS
                THEN Append(chunks, TextChunk(strip_len(current_chunk), FALSE,
                                              "procedure_steps"))
                ELSE chunks
    IN IF lines = <<>> THEN save
       ELSE LET line == Head(lines)
                grown == Append(current_chunk, line)
                n == join_len(lens_of(grown))
                break_point ==
                    find_sentence_boundary(boundaries(grown), n,
                                           CHUNK_MAX_CHARS - 200)
            IN IF line.kind = "step"
               THEN chunk_procedure_steps_loop(Tail(lines), save, <<line>>)
               ELSE IF n > CHUNK_MAX_CHARS /\ break_point > 0
               THEN chunk_procedure_steps_loop(
                        Tail(lines),
                        Append(chunks, TextChunk(break_point + CONT_LEN, TRUE,
                                                 "procedure_steps")),
                        remainder(grown, break_point))
               ELSE chunk_procedure_steps_loop(Tail(lines), chunks, grown)

chunk_procedure_steps(lines) == chunk_procedure_steps_loop(lines, <<>>, <<>>)

\* detect_section_headers: the line numbers of the headers
detect_section_headers(lines) ==
    {i \in DOMAIN lines : lines[i].kind = "header"}

\* chunk_policy_sections
RECURSIVE chunk_policy_sections_from(_, _)
chunk_policy_sections_from(lines, start_line) ==
    LET later == {h \in detect_section_headers(lines) : h > start_line}
        end_line == IF later = {} THEN Len(lines) + 1
                    ELSE CHOOSE h \in later : \A g \in later : h <= g
        section == SubSeq(lines, start_line, end_line - 1)
        here == IF join_len(lens_of(section)) <= CHUNK_MAX_CHARS
                THEN <<TextChunk(join_len(lens_of(section)), FALSE,
                                 "policy_section")>>
                ELSE chunk_by_size(section, "policy_section")
    IN IF later = {} THEN here
       ELSE here \o chunk_policy_sections_from(lines, end_line)

chunk_policy_sections(lines) ==
    LET headers == detect_section_headers(lines)
    IN IF headers = {} THEN chunk_by_size(lines, "policy_section")
       ELSE chunk_policy_sections_from(
                lines, CHOOSE h \in headers : \A g \in headers : h <= g)

\* chunk_form_content
chunk_form_content(lines, has_form_fields) ==
    IF ~has_form_fields THEN chunk_by_size(lines, "form_general")
    ELSE chunk_by_size(lines, "form_table_desc")

\* a variant of the loop that merges whatever it is given
merge_small_chunks_unconditional(rest, merged, current_chunk) ==
    IF rest = <<>> THEN Append(merged, current_chunk)
    ELSE Append(merged,
                TextChunk(current_chunk.len + 2 * Len(rest)
                            + sum(lens_of(rest)),
                          rest[Len(rest)].cont, current_chunk.chunk_type))

\* merge_small_chunks
RECURSIVE merge_small_chunks_loop(_, _, _)
merge_small_chunks_loop(rest, merged, current_chunk) ==
    IF rest = <<>> THEN Append(merged, current_chunk)
    ELSE LET next_chunk == Head(rest)
         IN IF /\ current_chunk.len < CHUNK_MIN_CHARS * 2
               /\ next_chunk.len < CHUNK_MIN_CHARS * 2
               /\ current_chunk.chunk_type = next_chunk.chunk_type
               /\ current_chunk.len + next_chunk.len <= CHUNK_MAX_CHARS
            THEN merge_small_chunks_loop(
                     Tail(rest), merged,
                     TextChunk(current_chunk.len + 2 + next_chunk.len,
                               next_chunk.cont, current_chunk.chunk_type))
            ELSE merge_small_chunks_loop(Tail(rest),
                                         Append(merged, current_chunk),
                                         next_chunk)

merge_small_chunks(chunks) ==
    IF Len(chunks) <= 1 THEN chunks
    ELSE merge_small_chunks_loop(Tail(chunks), <<>>, Head(chunks))

\* smart_chunk: the strategy chosen for the category, then the merge.
\* "form_fields" is a form in which detect_form_fields finds fields.
Categories == {"product_care", "policy", "form", "form_fields", "general"}

smart_chunk(category, lines) ==
    LET contains_steps == \E i \in DOMAIN lines : lines[i].kind = "step"
        form == chunk_form_content(lines, category = "form_fields")
        chunks ==
            IF category \in {"form", "form_fields"} /\ contains_steps
            THEN chunk_procedure_steps(lines) \o form
            ELSE IF category = "product_care" THEN chunk_procedure_steps(lines)
            ELSE IF category = "policy" THEN chunk_policy_sections(lines)
            ELSE IF category \in {"form", "form_fields"} THEN form
            ELSE chunk_by_size(lines, "general")
    IN [chunks |-> chunks,
        enhanced_chunks |-> IF MERGE_NEARBY THEN merge_small_chunks(chunks)
                            ELSE chunks]

\* ------------------------------------------------------------------------
\* smart_chunk as a function of the text
\* ------------------------------------------------------------------------
ChunkTexts == UNION {[1..n -> Lines] : n \in 1..MaxLines}

InitChunk ==
    /\ files = [p \in FilePaths |-> 0]
    /\ store = EmptyBag
    /\ cache = <<>>
    /\ events = <<>>
    /\ processing_files = <<>>
    /\ now = 0
    /\ housekeeper = Idle
    /\ workers = <<>>
    /\ last = NoCall
    /\ args \in [op : {"smart_chunk"}, category : Categories,
                 lines : ChunkTexts]
    /\ result = NoResult
    /\ globs = NoPatches

SmartChunk ==
    /\ result = NoResult
    /\ result' = [op |-> "smart_chunk"]
                 @@ smart_chunk(args.category, args.lines)
    /\ UNCHANGED <<files, store, cache, watchVars, threadVars, last, args, globs>>

NextChunk == SmartChunk

SpecChunk == InitChunk /\ [][NextChunk]_vars

\* ------------------------------------------------------------------------
\* The housekeeping thread (watch.py, _housekeep_loop)
\* ------------------------------------------------------------------------
\* The clock of this part counts probe intervals (time.sleep(0.5)): a second
\* is two of them. A sleep ends once the clock has moved on at least one
\* interval; every other step takes no time of its own.
debounce_seconds == 1
MaxTime == 3
PROBE == 1
DEBOUNCE == 2 * debounce_seconds

\* os.path.getsize: files of different content differ in size here
getsize(fs, path) == fs[path]
exists(fs, path) == fs[path] # 0

\* a variant that takes either test for enough
stable_either(size1, size2, t, first_seen) ==
    (size1 = size2) \/ (t - first_seen >= DEBOUNCE)

\* stable = (size1 == size2) and ((time.time() - first_seen) >= debounce)
stable(size1, size2, t, first_seen) ==
    (size1 = size2) /\ (t - first_seen >= DEBOUNCE)

\* a variant that leaves the entry where it is
pop_nothing(pf, path) == pf

\* processing_files.pop(path, None)
pop(pf, path) ==
    IF DOMAIN pf \ {path} = {} THEN <<>>
    ELSE [x \in DOMAIN pf \ {path} |-> pf[x]]

\* with self.processing_lock: snapshot = list(self.processing_files.items())
TakeSnapshot ==
    /\ housekeeper.pc = "idle"
    /\ housekeeper' = [housekeeper EXCEPT !.pc = "loop",
                          !.snapshot = processing_files,
                          !.todo = DOMAIN processing_files,
                          !.to_process = <<>>, !.judged = <<>>]
    /\ UNCHANGED <<files, store, cache, watchVars, workers, last, callVars>>

\* for path, first_seen in snapshot: if not os.path.exists(path): pop
Examine(path) ==
    /\ housekeeper.pc = "loop"
    /\ path \in housekeeper.todo
    /\ IF ~exists(files, path)
       THEN /\ processing_files' = pop(processing_files, path)
            /\ housekeeper' = [housekeeper EXCEPT !.todo = @ \ {path}]
       ELSE /\ UNCHANGED processing_files
            /\ housekeeper' = [housekeeper EXCEPT !.pc = "probe1",
                                  !.todo = @ \ {path}, !.path = path,
                                  !.first_seen = housekeeper.snapshot[path]]
    /\ UNCHANGED <<files, store, cache, events, now, workers, last, callVars>>

\* size1 = os.path.getsize(path); time.sleep(0.5)
Probe1 ==
    /\ housekeeper.pc = "probe1"
    /\ IF ~exists(files, housekeeper.path)
       THEN housekeeper' = [housekeeper EXCEPT !.pc = "loop"]
       ELSE housekeeper' = [housekeeper EXCEPT !.pc = "probe2",
                               !.size1 = getsize(files, housekeeper.path),
                               !.t1 = now]
    /\ UNCHANGED <<files, store, cache, watchVars, workers, last, callVars>>

\* size2 = os.path.getsize(path); stable = ...; if stable: ... pop
Probe2 ==
    /\ housekeeper.pc = "probe2"
    /\ now >= housekeeper.t1 + PROBE
    /\ LET path == housekeeper.path
           size2 == getsize(files, path)
       IN IF ~exists(files, path)
          THEN /\ housekeeper' = [housekeeper EXCEPT !.pc = "loop"]
               /\ UNCHANGED processing_files
          ELSE IF stable(housekeeper.size1, size2, now, housekeeper.first_seen)
          THEN /\ housekeeper' =
                    [housekeeper EXCEPT !.pc = "loop",
                        !.to_process = Append(@, path),
                        !.judged = Remember(@, path,
                            [size1 |-> housekeeper.size1, size2 |-> size2,
                             t1 |-> housekeeper.t1, t2 |-> now,
                             first_seen |-> housekeeper.first_seen,
                             latest |-> IF path \in DOMAIN processing_files
                                        THEN processing_files[path]
                                        ELSE housekeeper.first_seen])]
               /\ processing_files' = pop(processing_files, path)
          ELSE /\ housekeeper' = [housekeeper EXCEPT !.pc = "loop"]
               /\ UNCHANGED processing_files
    /\ UNCHANGED <<files, store, cache, events, now, workers, last, callVars>>

\* for path in to_process: document_pipeline.process_document(path, ...)
HousekeepProcess ==
    /\ housekeeper.pc = "loop"
    /\ housekeeper.todo = {}
    /\ housekeeper.to_process # <<>>
    /\ LET path == Head(housekeeper.to_process)
           out == process_document(files, store, cache, path, WATCH_DIR, 0)
       IN /\ store' = out.store
          /\ cache' = out.cache
          /\ last' = Called("process_document", path, out)
    /\ housekeeper' = [housekeeper EXCEPT !.to_process = Tail(@)]
    /\ UNCHANGED <<files, watchVars, workers, callVars>>

\* time.sleep(0.5) at the end of a pass
HousekeepSleep ==
    /\ housekeeper.pc = "loop"
    /\ housekeeper.todo = {}
    /\ housekeeper.to_process = <<>>
    /\ housekeeper' = [housekeeper EXCEPT !.pc = "sleep", !.t1 = now]
    /\ UNCHANGED <<files, store, cache, watchVars, workers, last, callVars>>

HousekeepWake ==
    /\ housekeeper.pc = "sleep"
    /\ now >= housekeeper.t1 + PROBE
    /\ housekeeper' = Idle
    /\ UNCHANGED <<files, store, cache, watchVars, workers, last, callVars>>

Elapse ==
    /\ now < MaxTime
    /\ now' = now + 1
    /\ UNCHANGED <<files, store, cache, events, processing_files, threadVars,
                   last, callVars>>

\* what the users do in this part: a.txt is written, rewritten and removed,
\* b.txt is written once
DebounceWrites ==
    {<<AbsPath(<<"a.txt">>), 1>>, <<AbsPath(<<"a.txt">>), 2>>,
     <<AbsPath(<<"b.txt">>), 1>>}

NextDebounce ==
    \/ \E w \in DebounceWrites : WatchedWrite(w[1], w[2])
    \/ WatchedRemove(AbsPath(<<"a.txt">>))
    \/ events # <<>> /\ on_created_or_modified(Head(events))
    \/ events # <<>> /\ on_deleted(Head(events))
    \/ Elapse
    \/ TakeSnapshot
    \/ \E p \in FilePaths : Examine(p)
    \/ Probe1
    \/ Probe2
    \/ HousekeepProcess
    \/ HousekeepSleep
    \/ HousekeepWake

SpecDebounce == Init /\ [][NextDebounce]_vars

\* ------------------------------------------------------------------------
\* The stage wrappers when something in them raises
\* ------------------------------------------------------------------------
\* A stage is called with what the previous stage returned; an error is
\* injected in the stage's own logic ("own") or in the supplementary
\* retrieval the stage issues ("retrieval"). failed tells whether the
\* statement that raises was reached.
StageOutcome(raised, value, failed) ==
    [raised |-> raised, value |-> value, failed |-> failed]

\* hybrid_autopatch wrapped, after cands = orig(query, bigk)
hybrid_wrapped(cands, k, fault) ==
    IF fault = "own" THEN StageOutcome(FALSE, Take(cands, k), TRUE)
    ELSE StageOutcome(FALSE, hybrid_rerank("main", cands, k), FALSE)

\* crossrefs_autopatch wrapped, after cands = orig(query, bigk); ref is what
\* orig returns for a reference phrase
crossrefs_wrapped(cands, ref, k, fault) ==
    LET top == Take(cands, top_docs)
        refs == Flatten([i \in 1..Len(top) |-> _extract_refs(top[i], max_refs)])
    IN IF cands = <<>> THEN StageOutcome(FALSE, cands, FALSE)
       ELSE IF fault = "own" \/ (fault = "retrieval" /\ refs # <<>>)
       THEN StageOutcome(TRUE, <<>>, TRUE)
       ELSE StageOutcome(FALSE,
                         retriever(<<"crossrefs">>, 1,
                                   [main |-> cands, ref |-> ref], "main", k),
                         FALSE)

\* quote_facts_autopatch wrapped, after out = orig(...); pool is what the
\* retriever returns when it does not raise
quote_wrapped(query, out, pool, fault) ==
    IF fault = "own" \/ (fault = "retrieval" /\ TRIGGER_RX_search(query))
    THEN StageOutcome(FALSE, out, TRUE)
    ELSE StageOutcome(FALSE, quote_facts_wrapped(query, out, pool), FALSE)

\* require_sources_autopatch wrapped, after out = orig(...): what can raise
\* is len(srcs), after _normalize(out) has been applied to the payload
guard_wrapped(out, fault) ==
    IF fault = "own" /\ _looks_like_resp(out)
    THEN StageOutcome(FALSE, _normalize(out), TRUE)
    ELSE StageOutcome(FALSE, require_sources_wrapped(out), FALSE)

StageCalls ==
    [op : {"stage"}, stage : {"hybrid"}, fault : {"none", "own"},
     cands : Hits, ref : {<<>>}, k : 1..MaxK]
    \cup [op : {"stage"}, stage : {"crossrefs"},
          fault : {"none", "own", "retrieval"},
          cands : Hits, ref : Hits, k : 1..MaxK]
    \cup [op : {"stage"}, stage : {"quote_facts"},
          fault : {"none", "own", "retrieval"},
          query : Queries, out : RoutePayloads,
          pool : {p \in Pools : Len(p.items) <= 1}]
    \cup [op : {"stage"}, stage : {"require_sources"},
          fault : {"none", "own"}, out : RoutePayloads]

InitFailOpen ==
    /\ files = [p \in FilePaths |-> 0]
    /\ store = EmptyBag
    /\ cache = <<>>
    /\ events = <<>>
    /\ processing_files = <<>>
    /\ now = 0
    /\ housekeeper = Idle
    /\ workers = <<>>
    /\ last = NoCall
    /\ args \in StageCalls
    /\ result = NoResult
    /\ globs = NoPatches

StageCall ==
    /\ result = NoResult
    /\ result' =
         [op |-> "stage",
          received |-> IF args.stage \in {"hybrid", "crossrefs"}
                       THEN args.cands ELSE args.out]
         @@ (CASE args.stage = "hybrid" ->
                    hybrid_wrapped(args.cands, args.k, args.fault)
               [] args.stage = "crossrefs" ->
                    crossrefs_wrapped(args.cands, args.ref, args.k, args.fault)
               [] args.stage = "quote_facts" ->
                    quote_wrapped(args.query, args.out, args.pool, args.fault)
               [] OTHER -> guard_wrapped(args.out, args.fault))
    /\ UNCHANGED <<files, store, cache, watchVars, threadVars, last, args,
                   globs>>

NextFailOpen == StageCall

SpecFailOpen == InitFailOpen /\ [][NextFailOpen]_vars

\* ------------------------------------------------------------------------
\* DocumentStore when the collection raises (store.py)
\* ------------------------------------------------------------------------
\* fault names the method of the Chroma collection that raises: "get",
\* "write" (upsert and delete), "query" or "count". An outcome is what the
\* caller sees: an exception or a result, given by its counts.
StoreOutcome(raised, count, documents, failed, s) ==
    [raised |-> raised, count |-> count, documents |-> documents,
     failed |-> failed, store |-> s]

\* get_doc_chunk_ids
get_doc_chunk_ids_call(s, doc_id, fault) ==
    IF fault = "get" THEN StoreOutcome(FALSE, 0, 0, TRUE, s)
    ELSE StoreOutcome(FALSE, get_doc_chunk_ids(s, doc_id), 0, FALSE, s)

\* upsert_chunks
upsert_chunks_call(s, meta, n_chunks, n_embeddings, fault) ==
    IF n_chunks = 0 \/ n_embeddings = 0
    THEN StoreOutcome(FALSE, 0, 0, FALSE, s)
    ELSE IF n_chunks # n_embeddings THEN StoreOutcome(TRUE, 0, 0, TRUE, s)
    ELSE IF fault = "write" THEN StoreOutcome(TRUE, 0, 0, TRUE, s)
    ELSE StoreOutcome(FALSE, n_chunks, 0, FALSE,
                      upsert_chunks(s, meta, n_chunks, n_embeddings).store)

\* delete_document
delete_document_call(s, doc_id, fault) ==
    LET chunk_ids == get_doc_chunk_ids_call(s, doc_id, fault)
        done == DocumentStore_delete_document(s, doc_id)
    IN IF chunk_ids.count = 0
       THEN StoreOutcome(FALSE, 0, 0, chunk_ids.failed, s)
       ELSE IF fault = "write" THEN StoreOutcome(FALSE, 0, 0, TRUE, s)
       ELSE StoreOutcome(FALSE, done.deleted, 0, FALSE, done.store)

\* search
search_call(s, n_results, fault) ==
    IF fault = "query" THEN StoreOutcome(FALSE, 0, 0, TRUE, s)
    ELSE StoreOutcome(FALSE, Min({n_results, BagCardinality(s)}), 0, FALSE, s)

\* get_collection_stats, with get_existing_doc_ids
get_collection_stats_call(s, fault) ==
    IF fault = "count" THEN StoreOutcome(FALSE, 0, 0, TRUE, s)
    ELSE StoreOutcome(FALSE, get_collection_stats(s).total_chunks,
                      IF fault = "get" THEN 0
                      ELSE get_collection_stats(s).total_documents,
                      fault = "get", s)

StoreDocs == {<<"sha256", "A">>, <<"sha256", "B">>}
MaxRows == 2
Collections ==
    {EmptyBag}
    \cup {[m \in {[doc_id |-> d]} |-> n] : d \in StoreDocs, n \in 1..MaxRows}
    \cup {[m \in {[doc_id |-> d] : d \in StoreDocs} |-> 1]}

StoreCalls ==
    [op : {"get_doc_chunk_ids", "upsert_chunks", "delete_document", "search",
           "get_collection_stats"},
     s : Collections, doc_id : StoreDocs, n_chunks : 0..MaxRows,
     n_embeddings : 0..MaxRows,
     fault : {"none", "get", "write", "query", "count"}]

InitStore ==
    /\ files = [p \in FilePaths |-> 0]
    /\ store = EmptyBag
    /\ cache = <<>>
    /\ events = <<>>
    /\ processing_files = <<>>
    /\ now = 0
    /\ housekeeper = Idle
    /\ workers = <<>>
    /\ last = NoCall
    /\ args \in StoreCalls
    /\ result = NoResult
    /\ globs = NoPatches

StoreCall ==
    /\ result = NoResult
    /\ result' =
         [op |-> args.op]
         @@ (CASE args.op = "get_doc_chunk_ids" ->
                    get_doc_chunk_ids_call(args.s, args.doc_id, args.fault)
               [] args.op = "upsert_chunks" ->
                    upsert_chunks_call(args.s, [doc_id |-> args.doc_id],
                                       args.n_chunks, args.n_embeddings,
                                       args.fault)
               [] args.op = "delete_document" ->
                    delete_document_call(args.s, args.doc_id, args.fault)
               [] args.op = "search" ->
                    search_call(args.s, args.n_chunks, args.fault)
               [] OTHER -> get_collection_stats_call(args.s, args.fault))
    /\ UNCHANGED <<files, store, cache, watchVars, threadVars, last, args,
                   globs>>

NextStore == StoreCall

SpecStore == InitStore /\ [][NextStore]_vars

\* ------------------------------------------------------------------------
\* process_pdf: the pages of a document (pipeline_fixed.py)
\* ------------------------------------------------------------------------
MaxPages == 2

\* _is_noise_content: a text of less than 20 characters, or one of the
\* noise patterns
_is_noise_content(text) == text.words = 0 \/ text.artifacts

\* EnhancedDocumentPipeline.process_pdf: the pages that contribute chunks,
\* with the text and the number of tables chunked for each
process_pdf(cfg, pages) ==
    LET outs == [i \in 1..Len(pages) |-> process_pdf_page(cfg, pages[i])]
        kept == {i \in 1..Len(pages) :
                    /\ ~(outs[i].text = EmptyText /\ outs[i].tables = 0)
                    /\ ~_is_noise_content(outs[i].text)}
        page_chunks(i) ==
            IF i \in kept
            THEN <<[page |-> i, text |-> outs[i].text,
                    tables |-> IF cfg.DISABLE_TABLES THEN 0
                               ELSE outs[i].tables]>>
            ELSE <<>>
    IN IF \E i \in 1..Len(pages) : outs[i].raised THEN <<>>
       ELSE Flatten([i \in 1..Len(pages) |-> page_chunks(i)])

\* the pages of this part: not in the page cache; the text extractor gives
\* a long or a short text or raises, OCR gives a text or raises, the table
\* extractor gives a table or raises, the page files can be written or not
PdfPages ==
    [cached : {NoPage},
     fast : {[src |-> "fast", words |-> w, artifacts |-> FALSE] :
                w \in {IMAGE_ONLY_WORDS - 1, OCR_WORD_THRESHOLD}}
            \cup {Raised},
     ocr : {[src |-> "ocr", words |-> OCR_WORD_THRESHOLD - 1,
             artifacts |-> FALSE], Raised},
     tabs : {-1, 1},
     save_fails : BOOLEAN]

InitPdf ==
    /\ files = [p \in FilePaths |-> 0]
    /\ store = EmptyBag
    /\ cache = <<>>
    /\ events = <<>>
    /\ processing_files = <<>>
    /\ now = 0
    /\ housekeeper = Idle
    /\ workers = <<>>
    /\ last = NoCall
    /\ args \in [op : {"process_pdf"}, cfg : Configs,
                 pages : UNION {[1..n -> PdfPages] : n \in 1..MaxPages}]
    /\ result = NoResult
    /\ globs = NoPatches

ProcessPdf ==
    /\ result = NoResult
    /\ result' = [op |-> "process_pdf",
                  chunks |-> process_pdf(args.cfg, args.pages)]
    /\ UNCHANGED <<files, store, cache, watchVars, threadVars, last, args,
                   globs>>

NextPdf == ProcessPdf

SpecPdf == InitPdf /\ [][NextPdf]_vars

\* ------------------------------------------------------------------------
\* Two documents worked on at once (pipeline_fixed.py, store.py, cache.py)
\* ------------------------------------------------------------------------
\* workers maps a file to the call in progress on it. A call of
\* process_document or delete_document is a sequence of steps, each one
\* access to the file system, the collection or the cache; steps of the
\* calls on different files interleave freely.
\*   pc        : the next step of the call ("idle": no call in progress)
\*   op        : "process" or "delete"
\*   info      : what get_file_info returned
\*   n_chunks  : len(chunks)
\*   chunk_ids : the rows collection.get returned to delete_document
\*   calls     : calls started so far
\* alone is the same sequence of calls made with nobody else at work, on a
\* collection and a cache of its own.
MaxCalls == 2

NoWork ==
    [pc |-> "idle", op |-> "none", info |-> Raise, n_chunks |-> 0,
     chunk_ids |-> EmptyBag]

WorkerIdle ==
    [real |-> NoWork,
     alone |-> [w |-> NoWork, store |-> EmptyBag, cache |-> <<>>],
     calls |-> 0]

\* a variant of collection.delete(ids=chunk_ids) that empties the collection
collection_delete_any(s, chunk_ids) ==
    IF chunk_ids = EmptyBag THEN s ELSE EmptyBag

\* collection.delete(ids=chunk_ids)
collection_delete(s, chunk_ids) == s (-) chunk_ids

\* collection.get(where={"doc_id": doc_id}): the rows found
collection_get(s, doc_id) == [m \in RowsOf(s, doc_id) |-> s[m]]

\* one step of the call w on file_path, on the collection s and the cache c
pipeline_step(w, fs, s, c, file_path, watch_dir) ==
    LET at(pc) == [w EXCEPT !.pc = pc]
        return == [w |-> NoWork, store |-> s, cache |-> c]
    IN
    CASE w.pc = "get_file_info" ->
           LET info == get_file_info(fs, file_path, watch_dir) IN
           IF ~info.ok THEN return
           ELSE [w |-> [w EXCEPT !.info = info,
                                 !.pc = IF w.op = "process"
                                        THEN "has_cached_data"
                                        ELSE "get_doc_chunk_ids"],
                 store |-> s, cache |-> c]
      [] w.pc = "has_cached_data" ->
           LET c1 == get_doc_cache_dir(c, w.info.doc_id) IN
           IF has_cached_data(c1, w.info.doc_id, w.info.content_hash)
           THEN [return EXCEPT !.cache = c1]
           ELSE [w |-> at("process_text_file"), store |-> s, cache |-> c1]
      [] w.pc = "process_text_file" ->
           LET n == IF fs[file_path] = 0 THEN 0
                    ELSE process_text_file(fs[file_path]) IN
           IF n = 0 THEN return
           ELSE [w |-> [w EXCEPT !.n_chunks = n, !.pc = "get_doc_chunk_ids"],
                 store |-> s, cache |-> c]
      [] w.pc = "get_doc_chunk_ids" ->
           [w |-> [w EXCEPT !.chunk_ids = collection_get(s, w.info.doc_id),
                            !.pc = "collection_delete"],
            store |-> s, cache |-> c]
      [] w.pc = "collection_delete" ->
           [w |-> at(IF w.op = "process" THEN "upsert_chunks"
                     ELSE "delete_doc_cache"),
            store |-> IF w.chunk_ids = EmptyBag THEN s
                      ELSE collection_delete(s, w.chunk_ids),
            cache |-> c]
      [] w.pc = "upsert_chunks" ->
           [w |-> at("save_doc_meta"),
            store |-> upsert_chunks(s, ChunkMeta(w.info), w.n_chunks,
                                    w.n_chunks).store,
            cache |-> c]
      [] w.pc = "save_doc_meta" ->
           [return EXCEPT
              !.cache = save_doc_meta(c, w.info.doc_id,
                                      DocMeta(w.info, w.n_chunks))]
      [] w.pc = "delete_doc_cache" ->
           [return EXCEPT !.cache = delete_doc_cache(c, w.info.doc_id)]
      [] OTHER -> [w |-> w, store |-> s, cache |-> c]

\* the rows and the cache directories of the document at file_path
RowsAndCacheOf(file_path, s, c) ==
    LET rel == get_relative_path(file_path, WATCH_DIR) IN
    [rows |-> [m \in RowsAt(s, rel) |-> s[m]],
     cache |-> [d \in {x \in DOMAIN c : x[2][1] = rel} |-> c[d]]]

InitInterleave ==
    /\ files \in [FilePaths -> Contents]
    /\ store = EmptyBag
    /\ cache = <<>>
    /\ events = <<>>
    /\ processing_files = <<>>
    /\ now = 0
    /\ housekeeper = Idle
    /\ workers = [p \in FilePaths |-> WorkerIdle]
    /\ last = NoCall
    /\ args = NoArgs
    /\ result = NoResult
    /\ globs = NoPatches

\* a call of process_document or delete_document on file p begins
StartCall(p, op) ==
    /\ workers[p].real.pc = "idle"
    /\ workers[p].alone.w.pc = "idle"
    /\ workers[p].calls < MaxCalls
    /\ workers' = [workers EXCEPT
          ![p].real = [NoWork EXCEPT !.pc = "get_file_info", !.op = op],
          ![p].alone.w = [NoWork EXCEPT !.pc = "get_file_info", !.op = op],
          ![p].calls = @ + 1]
    /\ UNCHANGED <<files, store, cache, watchVars, housekeeper, last,
                   callVars>>

\* the call on file p takes its next step, among the others and alone
WorkerStep(p) ==
    /\ workers[p].real.pc # "idle" \/ workers[p].alone.w.pc # "idle"
    /\ LET r == pipeline_step(workers[p].real, files, store, cache, p,
                              WATCH_DIR)
           a == pipeline_step(workers[p].alone.w, files,
                              workers[p].alone.store,
                              workers[p].alone.cache, p, WATCH_DIR)
       IN /\ store' = r.store
          /\ cache' = r.cache
          /\ workers' = [workers EXCEPT ![p].real = r.w, ![p].alone = a]
    /\ UNCHANGED <<files, watchVars, housekeeper, last, callVars>>

\* the file p is overwritten between two calls on it
Overwrite(p, content) ==
    /\ workers[p].real.pc = "idle"
    /\ workers[p].alone.w.pc = "idle"
    /\ WriteFile(p, content)

NextInterleave ==
    \/ \E p \in FilePaths, op \in {"process", "delete"} : StartCall(p, op)
    \/ \E p \in FilePaths : WorkerStep(p)
    \/ \E p \in FilePaths, content \in Contents : Overwrite(p, content)

SpecInterleave == InitInterleave /\ [][NextInterleave]_vars

\* ------------------------------------------------------------------------
\* The index and the cache under the pipeline and the CLI (reindex.py)
\* ------------------------------------------------------------------------
\* the document ids a file of the watched directory can get
DocIdsOf(p) ==
    {compute_doc_id(get_relative_path(p, WATCH_DIR), compute_content_hash(c))
       : c \in Contents}

\* reindex --delete DOC_ID: doc_store.delete_document(args.delete)
CliDelete(doc_id) ==
    /\ store' = DocumentStore_delete_document(store, doc_id).store
    /\ last' = [NoCall EXCEPT !.op = "cli_delete", !.doc_id = doc_id]
    /\ UNCHANGED <<files, cache, watchVars, threadVars, callVars>>

\* wipe_index: delete_collection, then get_or_create_collection
wipe_index ==
    /\ store' = EmptyBag
    /\ last' = [NoCall EXCEPT !.op = "wipe_index"]
    /\ UNCHANGED <<files, cache, watchVars, threadVars, callVars>>

\* wipe_cache: rmtree of the cache directory, then makedirs
wipe_cache ==
    /\ cache' = <<>>
    /\ last' = [NoCall EXCEPT !.op = "wipe_cache"]
    /\ UNCHANGED <<files, store, watchVars, threadVars, callVars>>

NextIndex ==
    \/ \E p \in FilePaths, content \in Contents : WriteFile(p, content)
    \/ \E p \in FilePaths : ProcessDocument(p, 0)
    \/ \E p \in FilePaths : DeleteDocument(p)
    \/ \E p \in FilePaths : \E d \in DocIdsOf(p) \cup {NoDoc} : CliDelete(d)
    \/ wipe_index
    \/ wipe_cache

SpecIndex == Init /\ [][NextIndex]_vars

\* ------------------------------------------------------------------------
\* The directory scan of the FastAPI backend (Backend_FastAPI/app.py)
\* ------------------------------------------------------------------------
\* A file name is a sequence of characters; the extension is one token.
\* In this part files maps the names of WATCH_DIRECTORY to 1 (a file of that
\* name is there) or 0, and globs holds the module's document_ids and
\* db_collection (a set of chunks [id, source_doc]).
MaxSuffix == 3

Code(ch) ==
    CASE ch = " " -> 32
      [] ch = "-" -> 45
      [] ch = "." -> 46
      [] ch = "1" -> 49
      [] ch = "2" -> 50
      [] ch = "3" -> 51
      [] ch = "_" -> 95
      [] ch = "a" -> 97
      [] ch = "b" -> 98
      [] ch = "exe" -> 101
      [] ch = "txt" -> 116

Digit(i) == CASE i = 1 -> "1" [] i = 2 -> "2" [] OTHER -> "3"

\* the names users put into the directory, and all names that can occur
UserNames ==
    {<<"a", " ", "b", ".", "txt">>, <<"a", "_", "b", ".", "txt">>,
     <<"a", "-", "b", ".", "txt">>, <<"b", ".", "exe">>}

ScanNames ==
    UserNames \cup {<<"a", "-", "b", "-", Digit(i), ".", "txt">> :
                      i \in 1..MaxSuffix}

\* str comparison, the order sorted() uses
RECURSIVE NameLess(_, _)
NameLess(x, y) ==
    IF y = <<>> THEN FALSE
    ELSE IF x = <<>> THEN TRUE
    ELSE IF Code(Head(x)) # Code(Head(y)) THEN Code(Head(x)) < Code(Head(y))
    ELSE NameLess(Tail(x), Tail(y))

RECURSIVE sorted(_)
sorted(S) ==
    IF S = {} THEN <<>>
    ELSE LET m == CHOOSE x \in S : \A y \in S \ {x} : NameLess(x, y)
         IN <<m>> \o sorted(S \ {m})

\* re.sub(r"\s+", "-"), replace("_", "-"), re.sub(r"-{2,}", "-")
RECURSIVE collapse(_)
collapse(name) ==
    IF name = <<>> THEN <<>>
    ELSE LET ch == IF Head(name) \in {" ", "_"} THEN "-" ELSE Head(name)
             rest == collapse(Tail(name))
         IN IF ch = "-" /\ rest # <<>> /\ Head(rest) = "-" THEN rest
            ELSE <<ch>> \o rest

RECURSIVE lstrip(_)
lstrip(name) ==
    IF name # <<>> /\ Head(name) = "-" THEN lstrip(Tail(name)) ELSE name

RECURSIVE rstrip(_)
rstrip(name) ==
    IF name # <<>> /\ name[Len(name)] = "-"
    THEN rstrip(SubSeq(name, 1, Len(name) - 1)) ELSE name

hyphen_name(name) ==
    LET n == rstrip(lstrip(collapse(name))) IN
    IF n = <<>> THEN <<"file">> ELSE n

\* Path(name).suffix.lower() in ALLOWED_EXTS
_is_supported(name) ==
    /\ Len(name) >= 3
    /\ name[Len(name) - 1] = "."
    /\ name[Len(name)] = "txt"

\* os.path.exists in WATCH_DIRECTORY
scan_exists(fs, name) == name \in DOMAIN fs /\ fs[name] # 0

\* the first f"{stem}-{i}{ext}" that does not exist
RECURSIVE free_candidate(_, _, _)
free_candidate(fs, normalized, i) ==
    LET cand == SubSeq(normalized, 1, Len(normalized) - 2)
                  \o <<"-", Digit(i)>>
                  \o SubSeq(normalized, Len(normalized) - 1, Len(normalized))
    IN IF ~scan_exists(fs, cand) \/ i >= MaxSuffix THEN cand
       ELSE free_candidate(fs, normalized, i + 1)

\* ensure_hyphen_file: the final name and the directory after os.replace
ensure_hyphen_file(fs, filename) ==
    LET normalized == hyphen_name(filename) IN
    IF filename = normalized THEN [name |-> filename, fs |-> fs]
    ELSE LET dst == IF scan_exists(fs, normalized)
                    THEN free_candidate(fs, normalized, 1)
                    ELSE normalized
         IN [name |-> dst,
             fs |-> [fs EXCEPT ![filename] = 0, ![dst] = 1]]

\* add_document of a one-page text file that gives one chunk
add_document(g, doc_id) ==
    LET chunk_id == <<doc_id, "p", 1, 0>> IN
    [document_ids |-> g.document_ids \cup {doc_id},
     db_collection |->
        IF \E c \in g.db_collection : c.id = chunk_id THEN g.db_collection
        ELSE g.db_collection \cup {[id |-> chunk_id, source_doc |-> doc_id]}]

\* a variant that leaves the chunks in the collection
delete_document_from_db_ids_only(g, doc_id) ==
    [document_ids |-> g.document_ids \ {doc_id},
     db_collection |-> g.db_collection]

delete_document_from_db(g, doc_id) ==
    [document_ids |-> g.document_ids \ {doc_id},
     db_collection |-> {c \in g.db_collection : c.source_doc # doc_id}]

\* the first loop of scan_directory over the names still to visit
RECURSIVE index_new(_, _, _, _)
index_new(names, fs, g, renamed) ==
    IF names = <<>> THEN [fs |-> fs, globs |-> g, renamed |-> renamed]
    ELSE LET name == Head(names) IN
         IF ~scan_exists(fs, name) \/ ~_is_supported(name)
         THEN index_new(Tail(names), fs, g, renamed)
         ELSE LET e == ensure_hyphen_file(fs, name) IN
              index_new(Tail(names), e.fs, add_document(g, e.name),
                        IF e.name # name THEN renamed \cup {e.name}
                        ELSE renamed)

RECURSIVE purge_removed(_, _)
purge_removed(names, g) ==
    IF names = {} THEN g
    ELSE LET name == CHOOSE n \in names : TRUE IN
         purge_removed(names \ {name}, delete_document_from_db(g, name))

\* scan_directory
scan_directory(fs, g) ==
    LET current_files == {n \in DOMAIN fs : fs[n] # 0}
        new == index_new(sorted(current_files \ g.document_ids), fs, g, {})
    IN [fs |-> new.fs,
        globs |-> purge_removed(new.globs.document_ids \ current_files,
                                new.globs),
        renamed |-> new.renamed]

InitScan ==
    /\ files = [n \in ScanNames |-> 0]
    /\ globs = [document_ids |-> {}, db_collection |-> {}]
    /\ store = EmptyBag
    /\ cache = <<>>
    /\ events = <<>>
    /\ processing_files = <<>>
    /\ now = 0
    /\ housekeeper = Idle
    /\ workers = <<>>
    /\ last = NoCall
    /\ args = NoArgs
    /\ result = NoResult

\* somebody puts a file into the watch directory
PutFile(name) ==
    /\ files[name] = 0
    /\ files' = [files EXCEPT ![name] = 1]
    /\ result' = NoResult
    /\ UNCHANGED <<store, cache, watchVars, threadVars, last, args, globs>>

\* somebody takes a file out of the watch directory
TakeFile(name) ==
    /\ files[name] # 0
    /\ files' = [files EXCEPT ![name] = 0]
    /\ result' = NoResult
    /\ UNCHANGED <<store, cache, watchVars, threadVars, last, args, globs>>

\* the startup scan or a periodic scan, completing without error
ScanDirectory ==
    LET out == scan_directory(files, globs) IN
    /\ files' = out.fs
    /\ globs' = out.globs
    /\ result' = [op |-> "scan_directory", renamed |-> out.renamed]
    /\ UNCHANGED <<store, cache, watchVars, threadVars, last, args>>

NextScan ==
    \/ \E name \in UserNames : PutFile(name)
    \/ \E name \in ScanNames : TakeFile(name)
    \/ ScanDirectory

SpecScan == InitScan /\ [][NextScan]_vars

\* ------------------------------------------------------------------------
\* The heading index (structure.py)
\* ------------------------------------------------------------------------
\* A heading carries the words of its title (the set _text_similarity makes
\* of it), its page, its line (bookmarks have none: h.get('line', 0)) and
\* its source.
MaxHeadings == 2
SIMILAR_NUM == 8
SIMILAR_DEN == 10

Heading(level, title, page, line, source) ==
    [level |-> level, title |-> title, page |-> page, line |-> line,
     source |-> source]

Titles == {{1, 2, 3, 4}, {1, 2, 3, 4, 5}, {1, 2, 3, 4, 5, 6}}
HeadingPages == {1, 2}

\* what extract_pdf_outline returns
Bookmarks ==
    {Heading(0, t, p, 0, "bookmark") : t \in Titles, p \in HeadingPages}
OutlineHeadings == UNION {[1..n -> Bookmarks] : n \in 0..MaxHeadings}

\* what detect_headings_by_text finds: at most one heading on a line
Heuristics ==
    {Heading(2, t, p, l, "heuristic") :
        t \in Titles, p \in HeadingPages, l \in {0, 1}}
TextHeadings ==
    {h \in UNION {[1..n -> Heuristics] : n \in 0..MaxHeadings} :
        \A i \in 1..Len(h), j \in 1..Len(h) :
           i # j => <<h[i].page, h[i].line>> # <<h[j].page, h[j].line>>}

\* _text_similarity: intersection and union of the two word sets
_text_similarity(words1, words2) ==
    IF words1 = {} \/ words2 = {} THEN <<0, 1>>
    ELSE <<Cardinality(words1 \cap words2), Cardinality(words1 \cup words2)>>

\* a variant that only takes equal titles for similar
similar_same_words(title1, title2) == title1 = title2

\* _text_similarity(..) > 0.8
similar(title1, title2) ==
    LET s == _text_similarity(title1, title2) IN
    SIMILAR_DEN * s[1] > SIMILAR_NUM * s[2]

RECURSIVE sort_headings(_)
\* all_headings.sort(key=lambda h: (h['page'], h.get('line', 0))): stable
sort_headings(s) ==
    IF s = <<>> THEN <<>>
    ELSE LET rest == sort_headings(SubSeq(s, 1, Len(s) - 1))
             x == s[Len(s)]
             n == Cardinality({i \in 1..Len(rest) :
                     \/ rest[i].page < x.page
                     \/ rest[i].page = x.page /\ rest[i].line <= x.line})
         IN SubSeq(rest, 1, n) \o <<x>> \o SubSeq(rest, n + 1, Len(rest))

\* list.remove(x): the first element equal to x goes
list_remove(s, x) ==
    LET j == Min({i \in 1..Len(s) : s[i] = x}) IN
    SubSeq(s, 1, j - 1) \o SubSeq(s, j + 1, Len(s))

RECURSIVE deduplicate(_, _, _)
\* the deduplication loop over all_headings[i..]
deduplicate(all_headings, i, deduplicated) ==
    IF i > Len(all_headings) THEN deduplicated
    ELSE LET heading == all_headings[i]
             found == {j \in 1..Len(deduplicated) :
                         /\ deduplicated[j].page = heading.page
                         /\ similar(deduplicated[j].title, heading.title)}
         IN IF found = {}
            THEN deduplicate(all_headings, i + 1,
                             Append(deduplicated, heading))
            ELSE LET existing == deduplicated[Min(found)] IN
                 IF heading.source = "bookmark"
                    /\ existing.source = "heuristic"
                 THEN deduplicate(all_headings, i + 1,
                         Append(list_remove(deduplicated, existing),
                                heading))
                 ELSE deduplicate(all_headings, i + 1, deduplicated)

\* build_heading_index with LEXA_USE_TOC on
build_heading_index(outline_headings, text_headings) ==
    deduplicate(sort_headings(outline_headings \o text_headings), 1, <<>>)

InitHeadings ==
    /\ args \in [op : {"build_heading_index"},
                 outline_headings : OutlineHeadings,
                 text_headings : TextHeadings]
    /\ result = NoResult
    /\ files = [p \in FilePaths |-> 0]
    /\ store = EmptyBag
    /\ cache = <<>>
    /\ events = <<>>
    /\ processing_files = <<>>
    /\ now = 0
    /\ housekeeper = Idle
    /\ workers = <<>>
    /\ last = NoCall
    /\ globs = NoPatches

BuildHeadingIndex ==
    /\ result = NoResult
    /\ result' = [op |-> "build_heading_index",
                  ret |-> build_heading_index(args.outline_headings,
                                              args.text_headings)]
    /\ UNCHANGED <<files, store, cache, watchVars, threadVars, last, args,
                   globs>>

NextHeadings == BuildHeadingIndex

SpecHeadings == InitHeadings /\ [][NextHeadings]_vars

\* ------------------------------------------------------------------------
\* Heading breadcrumbs (structure.py: build_heading_paths)
\* ------------------------------------------------------------------------
\* result holds the loop of build_heading_paths after i headings: the
\* path_stack of (level, title) pairs and the h_path given to each heading.
MaxPathHeadings == 3
MaxLevel == 2

PathHeadings ==
    UNION {[1..n -> [level : 0..MaxLevel, title : {"A", "B"}]] :
             n \in 0..MaxPathHeadings}

\* a variant that leaves an entry of the same level on the stack
pops_above_only(top_level, level) == top_level > level

\* path_stack[-1][0] >= level
pops(top_level, level) == top_level >= level

RECURSIVE pop_stack(_, _)
\* while path_stack and path_stack[-1][0] >= level: path_stack.pop()
pop_stack(path_stack, level) ==
    IF path_stack # <<>> /\ pops(path_stack[Len(path_stack)][1], level)
    THEN pop_stack(SubSeq(path_stack, 1, Len(path_stack) - 1), level)
    ELSE path_stack

RECURSIVE join(_, _)
\* sep.join(parts), as the sequence of its pieces
join(sep, parts) ==
    IF Len(parts) <= 1 THEN parts
    ELSE <<Head(parts), sep>> \o join(sep, Tail(parts))

\* one pass of the loop body for heading
push_heading(path_stack, heading) ==
    LET stack == Append(pop_stack(path_stack, heading.level),
                        <<heading.level, heading.title>>)
        path_parts == [i \in 1..Len(stack) |-> stack[i][2]]
    IN [path_stack |-> stack,
        h_path |-> IF Len(path_parts) > 1 THEN join(" > ", path_parts)
                   ELSE <<heading.title>>]

InitPaths ==
    /\ args \in [op : {"build_heading_paths"}, headings : PathHeadings]
    /\ result = [op |-> "build_heading_paths", i |-> 0,
                 path_stack |-> <<>>, h_path |-> <<>>]
    /\ files = [p \in FilePaths |-> 0]
    /\ store = EmptyBag
    /\ cache = <<>>
    /\ events = <<>>
    /\ processing_files = <<>>
    /\ now = 0
    /\ housekeeper = Idle
    /\ workers = <<>>
    /\ last = NoCall
    /\ globs = NoPatches

\* the next heading of the list is handled
PushHeading ==
    /\ result.i < Len(args.headings)
    /\ LET out == push_heading(result.path_stack,
                               args.headings[result.i + 1])
       IN result' = [op |-> "build_heading_paths", i |-> result.i + 1,
                     path_stack |-> out.path_stack,
                     h_path |-> Append(result.h_path, out.h_path)]
    /\ UNCHANGED <<files, store, cache, watchVars, threadVars, last, args,
                   globs>>

NextPaths == PushHeading

SpecPaths == InitPaths /\ [][NextPaths]_vars

\* ------------------------------------------------------------------------
\* merge_small_chunks, one pass of its loop at a time
\* ------------------------------------------------------------------------
\* result holds the loop after the chunks up to i: the list merged, the
\* chunk accumulated in current_chunk, and done once the function returned.
MaxChunks == 3
ChunkLens == {100, 359, 360, 740}

MergeInputs ==
    UNION {[1..n -> [len : ChunkLens, cont : {FALSE},
                     chunk_type : {"general", "procedure"}]] :
             n \in 0..MaxChunks}

InitMerge ==
    /\ args \in [op : {"merge_small_chunks"}, chunks : MergeInputs]
    /\ result = NoResult
    /\ files = [p \in FilePaths |-> 0]
    /\ store = EmptyBag
    /\ cache = <<>>
    /\ events = <<>>
    /\ processing_files = <<>>
    /\ now = 0
    /\ housekeeper = Idle
    /\ workers = <<>>
    /\ last = NoCall
    /\ globs = NoPatches

\* the statements before the loop
MergeStart ==
    /\ result = NoResult
    /\ result' =
         IF Len(args.chunks) <= 1
         THEN [op |-> "merge_small_chunks", i |-> Len(args.chunks),
               merged |-> args.chunks,
               current_chunk |-> TextChunk(0, FALSE, "none"),
               done |-> TRUE]
         ELSE [op |-> "merge_small_chunks", i |-> 1, merged |-> <<>>,
               current_chunk |-> args.chunks[1], done |-> FALSE]
    /\ UNCHANGED <<files, store, cache, watchVars, threadVars, last, args,
                   globs>>

\* one pass of the loop, for next_chunk = chunks[i + 1]
MergeStep ==
    /\ result # NoResult
    /\ ~result.done
    /\ result.i < Len(args.chunks)
    /\ LET out == merge_small_chunks_loop(<<args.chunks[result.i + 1]>>,
                                          <<>>, result.current_chunk)
       IN result' =
            IF Len(out) = 1
            THEN [result EXCEPT !.i = @ + 1, !.current_chunk = out[1]]
            ELSE [result EXCEPT !.i = @ + 1,
                                !.merged = Append(@, out[1]),
                                !.current_chunk = out[2]]
    /\ UNCHANGED <<files, store, cache, watchVars, threadVars, last, args,
                   globs>>

\* merged.append(current_chunk) after the loop, and the return
MergeReturn ==
    /\ result # NoResult
    /\ ~result.done
    /\ result.i = Len(args.chunks)
    /\ result' = [result EXCEPT
                    !.merged = Append(@, result.current_chunk),
                    !.done = TRUE]
    /\ UNCHANGED <<files, store, cache, watchVars, threadVars, last, args,
                   globs>>

NextMerge == MergeStart \/ MergeStep \/ MergeReturn

SpecMerge == InitMerge /\ [][NextMerge]_vars

\* ------------------------------------------------------------------------
\* The settings store (settings_store.py)
\* ------------------------------------------------------------------------
\* In this part files holds storage/settings.json: the dict json.load gives
\* (0: the key is absent). workers maps a request thread to its call of an
\* update function: pc, the dict settings it loaded, the value it is
\* writing, and written, the value of its last call that returned.
\* load_settings and save_settings each hold _lock from beginning to end, so
\* each is one step.
MaxValue == 2
SETTINGS_FILE == <<"storage", "settings.json">>
UpdateFunctions == {"update_branding_fields", "update_ai_fields"}

\* the field each function is asked to write
FieldOf(fn) ==
    IF fn = "update_branding_fields" THEN "companyName" ELSE "temperature"

NoSettings == [f \in {"companyName", "temperature"} |-> 0]

\* load_settings
load_settings(fs) == fs[SETTINGS_FILE]

\* save_settings: json.dump(data) over the whole file
save_settings(fs, data) == [fs EXCEPT ![SETTINGS_FILE] = data]

InitSettings ==
    /\ files = (SETTINGS_FILE :> NoSettings)
    /\ workers = [fn \in UpdateFunctions |->
                    [pc |-> "idle", settings |-> NoSettings, value |-> 0,
                     written |-> 0]]
    /\ store = EmptyBag
    /\ cache = <<>>
    /\ events = <<>>
    /\ processing_files = <<>>
    /\ now = 0
    /\ housekeeper = Idle
    /\ last = NoCall
    /\ args = NoArgs
    /\ result = NoResult
    /\ globs = NoPatches

\* update_*_fields(data) up to the return of load_settings
UpdateLoad(fn, value) ==
    /\ workers[fn].pc = "idle"
    /\ workers' = [workers EXCEPT ![fn].pc = "loaded",
                                  ![fn].settings = load_settings(files),
                                  ![fn].value = value]
    /\ UNCHANGED <<files, store, cache, watchVars, housekeeper, last,
                   callVars>>

\* settings[field] = value; save_settings(settings); return
UpdateSave(fn) ==
    /\ workers[fn].pc = "loaded"
    /\ LET settings == [workers[fn].settings EXCEPT
                          ![FieldOf(fn)] = workers[fn].value]
       IN /\ files' = save_settings(files, settings)
          /\ workers' = [workers EXCEPT ![fn].pc = "idle",
                                        ![fn].settings = settings,
                                        ![fn].written = workers[fn].value]
    /\ UNCHANGED <<store, cache, watchVars, housekeeper, last, callVars>>

NextSettings ==
    \/ \E fn \in UpdateFunctions, value \in 1..MaxValue :
          UpdateLoad(fn, value)
    \/ \E fn \in UpdateFunctions : UpdateSave(fn)

SpecSettings == InitSettings /\ [][NextSettings]_vars

\* ------------------------------------------------------------------------
\* The housekeeping thread keeps running
\* ------------------------------------------------------------------------
\* Time goes on for ever here. Once the clock stands at MaxTime the instants
\* kept in the state are moved one interval into the past instead, down to
\* 0: an instant at 0 is then at least MaxTime old, which is all the tests
\* (>= PROBE, >= DEBOUNCE) ask.
Older(t) == IF t > 0 THEN t - 1 ELSE 0

Passing ==
    IF now < MaxTime
    THEN /\ now' = now + 1
         /\ UNCHANGED <<processing_files, housekeeper>>
    ELSE /\ now' = now
         /\ processing_files' =
               [x \in DOMAIN processing_files |-> Older(processing_files[x])]
         /\ housekeeper' =
               [housekeeper EXCEPT
                  !.snapshot = [x \in DOMAIN @ |-> Older(@[x])],
                  !.first_seen = Older(@),
                  !.t1 = Older(@),
                  !.judged = [x \in DOMAIN @ |->
                                [@[x] EXCEPT !.t1 = Older(@), !.t2 = Older(@),
                                             !.first_seen = Older(@),
                                             !.latest = Older(@)]]]

TimePasses ==
    /\ Passing
    /\ UNCHANGED <<files, store, cache, events, workers, last, callVars>>

\* a file is written, each time with more in it
GrowingWrite(p, content) ==
    /\ files[p] < content
    /\ WatchedWrite(p, content)

\* the watchdog thread hands the next event to the handler
Deliver == events # <<>> /\ on_created_or_modified(Head(events))

\* the next step of _housekeep_loop
Housekeep ==
    \/ TakeSnapshot
    \/ \E p \in FilePaths : Examine(p)
    \/ Probe1
    \/ Probe2
    \/ HousekeepProcess
    \/ HousekeepSleep
    \/ HousekeepWake

NextLive ==
    \/ \E w \in DebounceWrites : GrowingWrite(w[1], w[2])
    \/ Deliver
    \/ TimePasses
    \/ Housekeep

SpecLive ==
    /\ Init
    /\ [][NextLive]_vars
    /\ WF_vars(Housekeep)
    /\ WF_vars(TimePasses)
    /\ WF_vars(Deliver)

\* ------------------------------------------------------------------------
\* The FAQ cache (faq_cache.py)
\* ------------------------------------------------------------------------
\* A question is a sequence of runs [ch, n]: the character ch n times. In
\* this part cache is _mem, files holds data/faq_cache.json, now is _now()
\* and globs the module's counters with the environment switch, next to
\* what the model remembers of the calls: gets (get calls that found the
\* cache enabled), sets, set_at (per key, the entry of the last set) and ticks.
\* workers maps a request thread to its call; the body of get and of set
\* runs under _lock, so it is one step.
TTL == 604800
KEY_LEN == 256
MaxGets == 2
MaxTicks == 2
MaxSets == 2
FaqThreads == {1, 2}
FAQ_PATH == <<"data", "faq_cache.json">>

Run(ch, n) == [ch |-> ch, n |-> n]

Questions ==
    {<<Run("b", 1)>>,
     <<Run("a", KEY_LEN)>>,
     <<Run(" ", 1), Run("A", 1), Run("a", KEY_LEN - 1), Run("b", 1),
       Run(" ", 2)>>}

\* an answer is a string, told apart from None
FaqAnswer(text) == [kind |-> "answer", text |-> text]

FaqAnswers == {FaqAnswer("x"), FaqAnswer("y")}

RECURSIVE str_strip_left(_)
str_strip_left(q) ==
    IF q # <<>> /\ Head(q).ch = " " THEN str_strip_left(Tail(q)) ELSE q

RECURSIVE str_strip_right(_)
str_strip_right(q) ==
    IF q # <<>> /\ q[Len(q)].ch = " "
    THEN str_strip_right(SubSeq(q, 1, Len(q) - 1)) ELSE q

str_lower_ch(ch) == CASE ch = "A" -> "a" [] ch = "B" -> "b" [] OTHER -> ch

RECURSIVE str_lower(_)
\* q.lower(); equal neighbours become one run
str_lower(q) ==
    IF q = <<>> THEN <<>>
    ELSE LET rest == str_lower(Tail(q))
             ch == str_lower_ch(Head(q).ch)
         IN IF rest # <<>> /\ Head(rest).ch = ch
            THEN <<Run(ch, Head(q).n + Head(rest).n)>> \o Tail(rest)
            ELSE <<Run(ch, Head(q).n)>> \o rest

RECURSIVE str_cut(_, _)
\* q[:n]
str_cut(q, n) ==
    IF q = <<>> \/ n = 0 THEN <<>>
    ELSE IF Head(q).n >= n THEN <<Run(Head(q).ch, n)>>
    ELSE <<Head(q)>> \o str_cut(Tail(q), n - Head(q).n)

\* _key: (q or "").strip().lower()[:256]
_key(q) == str_cut(str_lower(str_strip_right(str_strip_left(q))), KEY_LEN)

\* a variant for which no entry is ever too old
expired_never(t, ts) == FALSE

\* _now() - v.get("ts", 0) > TTL
expired(t, ts) == t - ts > TTL

\* the body of get under _lock
faq_get(mem, g, t, q) ==
    LET k == _key(q) IN
    IF k \notin DOMAIN mem
    THEN [ret |-> None, mem |-> mem, saved |-> FALSE,
          globs |-> [g EXCEPT !.faq_misses = @ + 1]]
    ELSE IF expired(t, mem[k].ts)
    THEN [ret |-> None, mem |-> [x \in DOMAIN mem \ {k} |-> mem[x]],
          saved |-> TRUE, globs |-> [g EXCEPT !.faq_misses = @ + 1]]
    ELSE [ret |-> mem[k].ans, mem |-> mem, saved |-> FALSE,
          globs |-> [g EXCEPT !.faq_hits = @ + 1]]

\* the body of set under _lock
faq_set(mem, t, q, ans) ==
    [x \in DOMAIN mem \cup {_key(q)} |->
        IF x = _key(q) THEN [ans |-> ans, ts |-> t] ELSE mem[x]]

FaqIdle == [pc |-> "idle", op |-> "none", q |-> <<>>, ans |-> None]

InitFaq ==
    /\ cache = <<>>
    /\ files = (FAQ_PATH :> <<>>)
    /\ now = 0
    /\ globs = [enabled |-> TRUE, faq_hits |-> 0, faq_misses |-> 0,
                gets |-> 0, sets |-> 0, set_at |-> <<>>, ticks |-> 0]
    /\ workers = [t \in FaqThreads |-> FaqIdle]
    /\ result = NoResult
    /\ store = EmptyBag
    /\ events = <<>>
    /\ processing_files = <<>>
    /\ housekeeper = Idle
    /\ last = NoCall
    /\ args = NoArgs

\* LEXA_USE_FAQ_CACHE is switched
FaqSwitch ==
    /\ globs' = [globs EXCEPT !.enabled = ~@]
    /\ UNCHANGED <<files, store, cache, watchVars, threadVars, last, args,
                   result>>

\* _now() moves on
FaqTick(dt) ==
    /\ globs.ticks < MaxTicks
    /\ now' = now + dt
    /\ globs' = [globs EXCEPT !.ticks = @ + 1]
    /\ UNCHANGED <<files, store, cache, events, processing_files, threadVars,
                   last, args, result>>

\* a thread calls get(q): if not enabled(): return None
GetCall(t, q) ==
    /\ workers[t].pc = "idle"
    /\ globs.gets < MaxGets
    /\ IF globs.enabled
       THEN /\ workers' = [workers EXCEPT ![t] =
                             [pc |-> "lock", op |-> "get", q |-> q,
                              ans |-> None]]
            /\ globs' = [globs EXCEPT !.gets = @ + 1]
            /\ UNCHANGED result
       ELSE /\ result' = [op |-> "get", thread |-> t, q |-> q,
                          enabled |-> FALSE, ret |-> None, at |-> now]
            /\ UNCHANGED <<workers, globs>>
    /\ UNCHANGED <<files, store, cache, watchVars, housekeeper, last, args>>

\* a thread calls set(q, ans): if not enabled(): return
SetCall(t, q, ans) ==
    /\ workers[t].pc = "idle"
    /\ globs.sets < MaxSets
    /\ globs.enabled
    /\ workers' = [workers EXCEPT ![t] =
                     [pc |-> "lock", op |-> "set", q |-> q, ans |-> ans]]
    /\ globs' = [globs EXCEPT !.sets = @ + 1]
    /\ UNCHANGED <<files, store, cache, watchVars, housekeeper, last, args,
                   result>>

\* the thread gets _lock and runs the body of get
GetBody(t) ==
    /\ workers[t].pc = "lock"
    /\ workers[t].op = "get"
    /\ LET out == faq_get(cache, globs, now, workers[t].q) IN
       /\ cache' = out.mem
       /\ files' = IF out.saved THEN (FAQ_PATH :> out.mem) ELSE files
       /\ globs' = out.globs
       /\ result' = [op |-> "get", q |-> workers[t].q, enabled |-> TRUE,
                     ret |-> out.ret, at |-> now]
    /\ workers' = [workers EXCEPT ![t] = FaqIdle]
    /\ UNCHANGED <<store, watchVars, housekeeper, last, args>>

\* the thread gets _lock and runs the body of set
SetBody(t) ==
    /\ workers[t].pc = "lock"
    /\ workers[t].op = "set"
    /\ LET mem == faq_set(cache, now, workers[t].q, workers[t].ans) IN
       /\ cache' = mem
       /\ files' = (FAQ_PATH :> mem)
       /\ globs' = [globs EXCEPT !.set_at =
                       [x \in DOMAIN @ \cup {_key(workers[t].q)} |->
                          IF x = _key(workers[t].q)
                          THEN [ans |-> workers[t].ans, ts |-> now]
                          ELSE @[x]]]
    /\ workers' = [workers EXCEPT ![t] = FaqIdle]
    /\ UNCHANGED <<store, watchVars, housekeeper, last, args, result>>

NextFaq ==
    \/ FaqSwitch
    \/ \E dt \in {1, TTL} : FaqTick(dt)
    \/ \E t \in FaqThreads, q \in Questions : GetCall(t, q)
    \/ \E t \in FaqThreads, q \in Questions, ans \in FaqAnswers :
          SetCall(t, q, ans)
    \/ \E t \in FaqThreads : GetBody(t)
    \/ \E t \in FaqThreads : SetBody(t)

SpecFaq == InitFaq /\ [][NextFaq]_vars

\* ------------------------------------------------------------------------
\* Query expansion (hybrid_autopatch.py)
\* ------------------------------------------------------------------------
\* A query is a sequence of lower-case words; a variant is such a sequence,
\* quoted or not. args holds the query and LEXA_EXPAND_N, result the list
\* that _expand_queries hands to hybrid_rerank, as the set of its entries
\* (the entries of the list are distinct).
MaxWords == 3
MaxExpand == 4
ExpandWords == {"purchase", "policy", "and", "travel"}

ExpandQueries == UNION {[1..n -> ExpandWords] : n \in 1..MaxWords}

Variant(quoted, words) == [quoted |-> quoted, words |-> words]

\* the entries of _SYNONYMS whose key is one of the words
_SYNONYMS ==
    [policy |-> {"procedure", "guidelines", "rules", "standard"},
     purchase |-> {"buy", "procure", "acquire", "order"}]

\* re.findall(r'"([^"]+)"|(\w+\s+\w+)', q): the pairs of words, left to
\* right, none sharing a word
phrases(q) ==
    {Variant(TRUE, <<q[2 * i - 1], q[2 * i]>>) : i \in 1..(Len(q) \div 2)}

\* ql.replace(k, s)
replace(q, k, s) == [i \in DOMAIN q |-> IF q[i] = k THEN s ELSE q[i]]

synonyms(q) ==
    UNION {{Variant(FALSE, replace(q, k, s)) : s \in _SYNONYMS[k]} :
              k \in {x \in DOMAIN _SYNONYMS : \E i \in DOMAIN q : q[i] = x}}

\* " and " in ql: an "and" with a word on each side; split at the first
decompositions(q) ==
    LET ands == {i \in 2..(Len(q) - 1) : q[i] = "and"} IN
    IF ands = {} THEN {}
    ELSE LET i == CHOOSE x \in ands : \A y \in ands : x <= y
         IN {Variant(FALSE, SubSeq(q, 1, i - 1)),
             Variant(FALSE, SubSeq(q, i + 1, Len(q)))}

\* ex, the set built by _expand_queries
ex(q) == {Variant(FALSE, q)} \cup phrases(q) \cup synonyms(q)
            \cup decompositions(q)

\* list(ex)[:1+limit]: the order in which a set of strings is listed is not
\* fixed, so the first 1+limit entries may be any 1+limit members of the set
_expand_queries(q, limit) ==
    {kept \in SUBSET ex(q) :
        Cardinality(kept) = IF Cardinality(ex(q)) < 1 + limit
                            THEN Cardinality(ex(q)) ELSE 1 + limit}

InitExpand ==
    /\ args \in [op : {"hybrid_rerank"}, query : ExpandQueries,
                 expand_n : 0..MaxExpand]
    /\ result = NoResult
    /\ globs = NoPatches
    /\ files = [p \in FilePaths |-> 0]
    /\ store = EmptyBag
    /\ cache = <<>>
    /\ events = <<>>
    /\ processing_files = <<>>
    /\ now = 0
    /\ housekeeper = Idle
    /\ workers = <<>>
    /\ last = NoCall

\* hybrid_rerank: exqs = _expand_queries(query, limit=expand_n)
ExpandQuery ==
    /\ result = NoResult
    /\ \E exqs \in _expand_queries(args.query, args.expand_n) :
          result' = [op |-> "_expand_queries", exqs |-> exqs]
    /\ UNCHANGED <<files, store, cache, watchVars, threadVars, last, args,
                   globs>>

NextExpand == ExpandQuery

SpecExpand == InitExpand /\ [][NextExpand]_vars

\* ------------------------------------------------------------------------
\* Claims on the indexing service
\* ------------------------------------------------------------------------

\* C1: a process_document call that directly follows a successful
\* process_document of the same path, the file's bytes being the same,
\* returns True, computes the same doc id, leaves the collection as it was
\* and makes no embedding call.
Idempotence ==
    (last.op = "process_document" /\ last.again) =>
        /\ last.ret
        /\ last.same_id
        /\ ~last.changed
        /\ last.calls = 0

\* C1 witness: such a second call was made for a document that has rows.
IdempotenceWitness ==
    /\ last.op = "process_document"
    /\ last.again
    /\ last.hit
    /\ get_doc_chunk_ids(store, last.doc_id) > batch_size

\* C2: get_file_info derives the document id from the path relative to the
\* watch directory and from the content hash. Different bytes give a
\* different id whatever the path; the same bytes at the same relative path
\* give the same id, also when the watch directory itself has moved; the
\* same bytes under another relative path (a rename) give a different id.
IdentityOfPathAndContent ==
    result.op = "get_file_info" =>
        LET b == args.before
            a == args.after
        IN ((b.content = a.content /\ b.rel = a.rel)
                <=> result.before.doc_id = result.after.doc_id)

IdentityWitness ==
    /\ result.op = "get_file_info"
    /\ args.before.content = args.after.content
    /\ args.before.watch_dir = args.after.watch_dir
    /\ args.before.rel # args.after.rel
    /\ result.before.doc_id # result.after.doc_id

\* C2 as stated: a renamed file with unchanged bytes keeps its document id
\* and changed bytes at the same path give another one.
RenameKeepsIdentity ==
    result.op = "get_file_info" =>
        LET b == args.before
            a == args.after
        IN /\ (b.content # a.content /\ b.rel = a.rel /\
               b.watch_dir = a.watch_dir)
                  => result.before.doc_id # result.after.doc_id
           /\ (b.content = a.content /\ b.watch_dir = a.watch_dir)
                  => result.before.doc_id = result.after.doc_id

\* C3: after a successful process_document of a path, every row stored for
\* the path's relative path belongs to the doc id just computed (none is
\* left from an earlier content of the file).
ReplacementOnChange ==
    (last.op = "process_document" /\ last.ret) =>
        \A m \in RowsAt(store, get_relative_path(last.path, WATCH_DIR)) :
            m.doc_id = last.doc_id

EmbeddingFailureIsClean ==
    (last.op = "process_document" /\ last.failed) =>
        /\ ~last.ret
        /\ ~last.changed
        /\ load_doc_meta(cache, last.doc_id).kind # "meta"
        /\ ~has_cached_data(cache, last.doc_id,
                            compute_content_hash(last.content))

\* C6 witness: the call for the second batch raised, after the first batch
\* had been embedded.
EmbeddingFailureWitness ==
    /\ last.op = "process_document"
    /\ last.failed
    /\ last.calls = 2
    /\ ~last.ret

\* C5: once the handler has taken a deleted event, or the source side of a
\* moved event, for a file that is not ignored and had rows in the
\* collection, the collection holds no row for that file and no cache
\* directory of a doc id of that file is left.
WatcherDeletion ==
    (/\ last.op \in {"on_deleted", "on_moved"}
     /\ ~_should_ignore(last.path)
     /\ last.had_rows) =>
        /\ RowsAt(store, get_relative_path(last.path, WATCH_DIR)) = {}
        /\ \A content \in Contents :
              compute_doc_id(get_relative_path(last.path, WATCH_DIR),
                             compute_content_hash(content))
                  \notin DOMAIN cache

\* C7: has_cached_data answers true only when the doc.meta.json of the doc
\* id is complete, carries the completion flag set, and carries the content
\* hash asked for.
CacheValidityNeedsFlag ==
    (result.op = "has_cached_data" /\ result.ret) =>
        /\ result.doc_id \in DOMAIN cache
        /\ cache[result.doc_id].kind = "meta"
        /\ "processing_complete" \in cache[result.doc_id].keys
        /\ cache[result.doc_id].processing_complete = "true"
        /\ cache[result.doc_id].content_hash = result.content_hash

\* a true answer given for metadata that lacks the completion flag
CacheValidityWitness ==
    /\ result.op = "has_cached_data"
    /\ result.ret
    /\ "processing_complete" \notin cache[result.doc_id].keys

\* C8: with both wrappers installed, in either order, a payload the route
\* finally returns for an answer-like result with fewer than _MIN sources is
\* the fixed no-grounded-answer payload: the fixed message, no sources,
\* confidence 0.
MinimumSourcesGuard ==
    (/\ result.op = "chat"
     /\ Installed("require_sources")
     /\ Installed("quote_facts")
     /\ _looks_like_resp(result.final)
     /\ (IF "sources" \in result.final.keys THEN result.final.sources ELSE 0)
            < _MIN) =>
        /\ result.final.response = _MSG
        /\ result.final.sources = 0
        /\ result.final.confidence = 0

\* the guard ran first and the quoting wrapper changed its payload
MinimumSourcesWitness ==
    /\ result.op = "chat"
    /\ globs.chat = <<"require_sources", "quote_facts">>
    /\ result.quote_in = NoAnswer
    /\ result.final # NoAnswer

\* C9: with the hybrid patch installed first and the cross-reference patch
\* around it, the list returned for a query holds at most max_per chunks of
\* one (file_name, page).
DiversityCap ==
    (result.op = "retrieve" /\ globs.retrieve = <<"hybrid", "crossrefs">>)
    =>
    \A c \in IndexChunks :
        Cardinality({i \in 1..Len(result.ret) :
                        /\ result.ret[i].file_name = c.file_name
                        /\ result.ret[i].page = c.page}) <= max_per

\* a chunk pulled in for a reference is in the returned list
DiversityCapWitness ==
    /\ result.op = "retrieve"
    /\ globs.retrieve = <<"hybrid", "crossrefs">>
    /\ \E i \in 1..Len(result.ret) :
          \A j \in 1..Len(args.index.main) :
              args.index.main[j].id # result.ret[i].id

\* C10: the quoting wrapper, given a dict payload. When the query triggers
\* and some candidate of the pool has a sentence with a number followed by
\* a unit, the response returned is the citation and the quoted first such
\* sentence of the first such candidate, followed by the response the
\* wrapper was given; the confidence is at least 0.62 and is the one given
\* if that was at least 0.62. When the query does not trigger or no
\* candidate has such a sentence, the payload is returned as it was given.
NumericFactQuoting ==
    (result.op = "chat" /\ result.quoting /\ result.quote_in.kind = "dict")
    =>
    LET given == result.quote_in
        ret == result.quote_out
        items == args.pool.items
        Facts(i) == {j \in 1..Len(_sentences(items[i].text)) :
                        NUM_RX_search(_sentences(items[i].text)[j])}
        having == {i \in 1..Len(items) : Facts(i) # {}}
    IN IF TRIGGER_RX_search(args.query) /\ having # {}
       THEN LET c == items[Min(having)]
                sentence == strip(_sentences(c.text)[Min(Facts(Min(having)))])
                quote == prepend(c.metadata, sentence)
                before == IF "response" \in given.keys THEN given.response
                          ELSE IF "answer" \in given.keys THEN given.answer
                          ELSE <<>>
                conf == IF "confidence" \in given.keys THEN given.confidence
                        ELSE 0
            IN /\ ret.response = quote \o before
               /\ "response" \in ret.keys
               /\ ret.confidence >= CONFIDENCE_FLOOR
               /\ conf >= CONFIDENCE_FLOOR => ret.confidence = conf
               /\ ret.sources = given.sources
       ELSE ret = given

\* a quote taken from the second candidate's second sentence, the confidence
\* raised
NumericFactQuotingWitness ==
    /\ result.op = "chat"
    /\ result.quoting
    /\ result.quote_in.kind = "dict"
    /\ TRIGGER_RX_search(args.query)
    /\ Len(args.pool.items) = 2
    /\ ~_find_fact_sentence(args.pool.items[1].text).found
    /\ args.pool.items[2].text = <<"W", "w.", "9", "d.">>
    /\ result.quote_in.confidence < CONFIDENCE_FLOOR
    /\ result.quote_out.confidence = CONFIDENCE_FLOOR
    /\ result.quote_out.response # result.quote_in.response

ChunkMaximumSize ==
    result.op = "smart_chunk" =>
      /\ \A i \in DOMAIN result.chunks :
           ~result.chunks[i].cont => result.chunks[i].len <= CHUNK_MAX_CHARS
      /\ \A i \in DOMAIN result.enhanced_chunks :
           ~result.enhanced_chunks[i].cont
             => result.enhanced_chunks[i].len <= CHUNK_MAX_CHARS

\* a text longer than the maximum has been chunked
ChunkMaximumSizeWitness ==
    /\ result.op = "smart_chunk"
    /\ join_len(lens_of(args.lines)) > CHUNK_MAX_CHARS
    /\ Len(result.enhanced_chunks) > 1

\* C13: every chunk emitted for a document, other than the final chunk of
\* the document, has at least CHUNK_MIN_CHARS characters.
ChunkMinimumSize ==
    result.op = "smart_chunk" =>
      \A i \in 1..(Len(result.enhanced_chunks) - 1) :
         result.enhanced_chunks[i].len >= CHUNK_MIN_CHARS

\* a document of several chunks has been emitted
ChunkMinimumSizeWitness ==
    /\ result.op = "smart_chunk"
    /\ Len(result.enhanced_chunks) > 1
    /\ \E i \in DOMAIN args.lines : args.lines[i].len < CHUNK_MIN_CHARS

\* C14: the housekeeper starts process_document for a path only after two
\* size probes taken at least one probe interval apart returned the same
\* size and at least debounce_seconds had elapsed since the timestamp it read
\* for the path; a path that fails either test stays in processing_files and
\* is not queued for processing in this pass.
Debounce ==
    [][/\ HousekeepProcess =>
            LET j == housekeeper.judged[Head(housekeeper.to_process)]
            IN /\ j.size1 = j.size2
               /\ j.t2 - j.t1 >= PROBE
               /\ j.t2 - j.first_seen >= DEBOUNCE
               /\ now >= j.t2
       /\ (/\ Probe2
           /\ exists(files, housekeeper.path)
           /\ \/ getsize(files, housekeeper.path) # housekeeper.size1
              \/ now - housekeeper.first_seen < DEBOUNCE)
            => /\ processing_files' = processing_files
               /\ housekeeper'.to_process = housekeeper.to_process]_vars

\* a file has been processed after its quiet period, and a path that was
\* probed too early is still pending
DebounceWitness ==
    /\ last.op = "process_document"
    /\ last.ret
    /\ housekeeper.pc = "loop"
    /\ DOMAIN housekeeper.judged # {}
    /\ DOMAIN processing_files # {}

\* C20: process_document is never started for a path less than
\* debounce_seconds after the most recent create/modify event delivered for
\* it, and an event delivered after the housekeeper's snapshot and before
\* the path is removed from processing_files keeps the path pending with the
\* new timestamp.
QuietPeriod ==
    [][/\ HousekeepProcess =>
            LET path == Head(housekeeper.to_process)
                recent == IF path \in DOMAIN processing_files
                          THEN processing_files[path]
                          ELSE housekeeper.judged[path].latest
            IN now - recent >= DEBOUNCE
       /\ (/\ Probe2
           /\ housekeeper.path \in DOMAIN processing_files
           /\ processing_files[housekeeper.path] # housekeeper.first_seen)
            => /\ housekeeper.path \in DOMAIN processing_files'
               /\ processing_files'[housekeeper.path]
                    = processing_files[housekeeper.path]]_vars

\* an event for the path has been delivered between the snapshot and the
\* second probe
QuietPeriodWitness ==
    /\ housekeeper.pc = "probe2"
    /\ housekeeper.path \in DOMAIN processing_files
    /\ processing_files[housekeeper.path] > housekeeper.first_seen

\* C15: when the logic of a stage wrapper raises, also in a supplementary
\* retrieval the stage issues, the wrapper returns what it received from the
\* previous stage unchanged and raises nothing.
StagesFailOpen ==
    (result.op = "stage" /\ result.failed) =>
        /\ ~result.raised
        /\ result.value = result.received

\* the retriever raised inside the quoting wrapper for a triggering query
StagesFailOpenWitness ==
    /\ result.op = "stage"
    /\ args.stage = "quote_facts"
    /\ args.fault = "retrieval"
    /\ result.failed
    /\ ~result.raised
    /\ result.value = args.out

\* C16: a DocumentStore operation that hits an error of the collection, or
\* a chunk/embedding count mismatch, returns a zero or empty result and
\* raises nothing.
StoreErrorsContained ==
    (result.op \in {"get_doc_chunk_ids", "upsert_chunks", "delete_document",
                    "search", "get_collection_stats"}
     /\ "failed" \in DOMAIN result /\ result.failed) =>
        /\ ~result.raised
        /\ result.count = 0 \/ args.op = "get_collection_stats"
        /\ result.documents = 0
        /\ result.store = args.s

\* delete_document has swallowed an error of collection.delete
StoreErrorsContainedWitness ==
    /\ result.op = "delete_document"
    /\ args.fault = "write"
    /\ result.failed
    /\ ~result.raised
    /\ result.count = 0
    /\ get_doc_chunk_ids(args.s, args.doc_id) > 0

\* C17: when the extraction of page i fails at some step (text extractor,
\* OCR, table extractor or page-cache write raising), every other page j
\* whose own extraction gives text is still extracted and its chunks are in
\* the list process_pdf returns.
PageFailureIsolation ==
    result.op = "process_pdf" =>
      \A i \in DOMAIN args.pages, j \in DOMAIN args.pages :
         LET p == args.pages[i]
             alone == process_pdf_page(args.cfg, args.pages[j])
         IN (/\ i # j
             /\ \/ p.fast = Raised
                \/ p.ocr = Raised
                \/ p.tabs < 0
                \/ p.save_fails
             /\ ~alone.raised
             /\ ~_is_noise_content(alone.text))
            => \E c \in DOMAIN result.chunks :
                  /\ result.chunks[c].page = j
                  /\ result.chunks[c].text = alone.text

\* the first page's OCR raised and the second page's chunks were returned
PageFailureIsolationWitness ==
    /\ result.op = "process_pdf"
    /\ Len(args.pages) = 2
    /\ args.pages[1].fast.words < OCR_WORD_THRESHOLD
    /\ args.pages[1].ocr = Raised
    /\ ~args.cfg.DISABLE_OCR
    /\ \E c \in DOMAIN result.chunks : result.chunks[c].page = 2

\* C18: whatever the interleaving of the steps of process_document and
\* delete_document on two different documents, a step made for one document
\* leaves the rows and the cache directories of the other as they were, and
\* the rows and cache directories of each document are those its own calls
\* give when they run alone.
NonInterference ==
    [][\A p \in FilePaths :
         /\ workers'[p] # workers[p] =>
              \A q \in FilePaths \ {p} :
                 RowsAndCacheOf(q, store', cache')
                   = RowsAndCacheOf(q, store, cache)
         /\ RowsAndCacheOf(p, store', cache')
              = RowsAndCacheOf(p, workers'[p].alone.store,
                               workers'[p].alone.cache)]_vars

\* one document has been indexed and removed again while a call on the
\* other, begun before, is between deleting its old rows and writing the new
NonInterferenceWitness ==
    \E p \in FilePaths, q \in FilePaths :
       /\ p # q
       /\ workers[p].real.pc = "upsert_chunks"
       /\ workers[p].calls = 2
       /\ workers[q].calls = 2
       /\ workers[q].real.pc = "delete_doc_cache"
       /\ DOMAIN RowsAndCacheOf(p, store, cache).cache # {}

\* C19: in every state reached by process_document, the pipeline's
\* delete_document, the CLI's delete by document id, wipe_index and
\* wipe_cache, a document for which has_cached_data holds has exactly the
\* chunk_count rows its doc.meta.json records in the collection.
CacheIndexConsistent ==
    \A p \in FilePaths, c \in Contents :
       LET content_hash == compute_content_hash(c)
           doc_id == compute_doc_id(get_relative_path(p, WATCH_DIR),
                                    content_hash)
       IN has_cached_data(cache, doc_id, content_hash) =>
            get_doc_chunk_ids(store, doc_id)
              = load_doc_meta(cache, doc_id).chunk_count

\* the rows of an indexed document have just been deleted by its id, and
\* has_cached_data still holds for the file as it is
CacheIndexConsistentWitness ==
    /\ last.op = "cli_delete"
    /\ \E p \in FilePaths :
          LET info == get_file_info(files, p, WATCH_DIR) IN
          /\ info.ok
          /\ info.doc_id = last.doc_id
          /\ has_cached_data(cache, info.doc_id, info.content_hash)
          /\ load_doc_meta(cache, info.doc_id).chunk_count > 0

\* C21: when scan_directory has completed without error, every supported
\* file of the watch directory is in document_ids with its chunks in the
\* collection and every name in document_ids is a file of the directory,
\* the files the scan renamed to their hyphen-normalised names included.
ScanReconciliation ==
    result.op = "scan_directory" =>
       /\ \A name \in ScanNames :
             (scan_exists(files, name) /\ _is_supported(name)) =>
                /\ name \in globs.document_ids
                /\ \E c \in globs.db_collection : c.source_doc = name
       /\ \A name \in globs.document_ids : scan_exists(files, name)

\* a scan has just renamed a file, the renamed file is in the directory
ScanReconciliationWitness ==
    /\ result.op = "scan_directory"
    /\ \E name \in result.renamed :
          /\ scan_exists(files, name)
          /\ name = hyphen_name(name)

\* C22: the list the cross-reference wrapper returns has at most k entries,
\* is ordered by non-increasing score and holds no candidate twice: a hit
\* pulled for a reference that is already in the initial pool, or was pulled
\* for another reference, is not added again.
CrossrefResult ==
    (/\ result.op = "retrieve"
     /\ globs.retrieve # <<>>
     /\ globs.retrieve[Len(globs.retrieve)] = "crossrefs") =>
       LET ret == result.ret IN
       /\ Len(ret) <= args.k
       /\ \A i \in 1..Len(ret), j \in 1..Len(ret) :
             i < j => ret[i].fused >= ret[j].fused
       /\ \A i \in 1..Len(ret), j \in 1..Len(ret) :
             i # j => ret[i].id # ret[j].id

\* the wrapper answered a query whose top candidate carries a reference,
\* and the hits for the reference include a chunk of the initial pool
CrossrefResultWitness ==
    /\ result.op = "retrieve"
    /\ globs.retrieve = <<"crossrefs">>
    /\ args.k >= 2
    /\ args.index.main # <<>>
    /\ args.index.main[1].refs # <<>>
    /\ \E i \in 1..Len(args.index.ref) :
          /\ args.index.ref[i] = args.index.main[1]
    /\ Len(result.ret) >= 2
    /\ result.ret[1].id = result.ret[2].id

HeadingDeduplicationAtOrAbove ==
    result.op = "build_heading_index" =>
       LET ret == result.ret
           at_or_above(t1, t2) ==
               LET s == _text_similarity(t1, t2) IN
               SIMILAR_DEN * s[1] >= SIMILAR_NUM * s[2]
       IN
       /\ \A i \in 1..Len(ret), j \in 1..Len(ret) :
             (i # j /\ ret[i].page = ret[j].page) =>
                ~at_or_above(ret[i].title, ret[j].title)
       /\ \A i \in 1..Len(ret), j \in 1..Len(ret) :
             (/\ ret[i].source = "bookmark"
              /\ ret[j].source = "heuristic"
              /\ ret[i].page = ret[j].page) =>
                ~at_or_above(ret[i].title, ret[j].title)

\* C24, amended: in the index build_heading_index returns no two headings
\* of a page have titles whose Jaccard similarity is above 0.8 (a pair at
\* exactly 0.8 is kept), and no bookmark heading gives way to a heuristic
\* one: every bookmark heading is in the index unless a bookmark heading of
\* its page with a similar title is.
HeadingDeduplication ==
    result.op = "build_heading_index" =>
       LET ret == result.ret
           above(t1, t2) ==
               LET s == _text_similarity(t1, t2) IN
               SIMILAR_DEN * s[1] > SIMILAR_NUM * s[2]
       IN
       /\ \A i \in 1..Len(ret), j \in 1..Len(ret) :
             (i # j /\ ret[i].page = ret[j].page) =>
                ~above(ret[i].title, ret[j].title)
       /\ \A b \in 1..Len(args.outline_headings) :
             \E i \in 1..Len(ret) :
                /\ ret[i].source = "bookmark"
                /\ ret[i].page = args.outline_headings[b].page
                /\ \/ ret[i] = args.outline_headings[b]
                   \/ above(ret[i].title, args.outline_headings[b].title)

\* a page has a bookmark and a heuristic heading whose titles share five of
\* six words; the index keeps the bookmark only
HeadingDeduplicationWitness ==
    /\ result.op = "build_heading_index"
    /\ Len(args.outline_headings) = 1
    /\ Len(args.text_headings) = 1
    /\ args.outline_headings[1].page = args.text_headings[1].page
    /\ args.outline_headings[1].title = {1, 2, 3, 4, 5}
    /\ args.text_headings[1].title = {1, 2, 3, 4, 5, 6}
    /\ result.ret = args.outline_headings

\* C25: in build_heading_paths, after each heading is pushed the levels on
\* the stack increase strictly from bottom to top, the heading just pushed
\* is on top, and its h_path is the titles on the stack from bottom to top
\* (the bare title when the stack holds one entry).
BreadcrumbStack ==
    (result.op = "build_heading_paths" /\ result.i >= 1) =>
       LET st == result.path_stack
           heading == args.headings[result.i]
           h_path == result.h_path[result.i]
           titles == SelectSeq(h_path, LAMBDA x : x # " > ")
       IN
       /\ \A a \in 1..Len(st), b \in 1..Len(st) :
             a < b => st[a][1] < st[b][1]
       /\ st # <<>>
       /\ st[Len(st)] = <<heading.level, heading.title>>
       /\ titles = [a \in 1..Len(st) |-> st[a][2]]
       /\ Len(h_path) = 2 * Len(st) - 1
       /\ Len(st) = 1 => h_path = <<heading.title>>

\* a third heading was pushed that popped a deeper entry and left its
\* parent: the stack holds two entries
BreadcrumbStackWitness ==
    /\ result.op = "build_heading_paths"
    /\ result.i = 3
    /\ args.headings[1].level = 0
    /\ args.headings[2].level = 2
    /\ args.headings[3].level = 1
    /\ Len(result.path_stack) = 2
    /\ Len(result.h_path[3]) = 3

\* C26: merge_small_chunks merges a chunk into the chunk accumulated before
\* it only if both have the same chunk type and each is shorter than twice
\* CHUNK_MIN_CHARS, and the text of every chunk made by merging, the
\* separator included, has at most CHUNK_MAX_CHARS characters.
MergeRule ==
    [][(/\ result # NoResult
        /\ ~result.done
        /\ ~result'.done
        /\ Len(result'.merged) = Len(result.merged)) =>
          LET current_chunk == result.current_chunk
              next_chunk == args.chunks[result'.i]
          IN /\ result'.i = result.i + 1
             /\ current_chunk.chunk_type = next_chunk.chunk_type
             /\ current_chunk.len < 2 * CHUNK_MIN_CHARS
             /\ next_chunk.len < 2 * CHUNK_MIN_CHARS
             /\ result'.current_chunk.len
                  = current_chunk.len + 2 + next_chunk.len
             /\ result'.current_chunk.len <= CHUNK_MAX_CHARS]_vars

\* three chunks of one type were merged into one, and the function
\* returned what the loop built
MergeRuleWitness ==
    /\ result # NoResult
    /\ result.done
    /\ Len(args.chunks) = 3
    /\ Len(result.merged) = 1
    /\ result.merged[1].len = 100 + 2 + 100 + 2 + 359
    /\ result.merged = merge_small_chunks(args.chunks)

\* C27: when update_branding_fields and update_ai_fields run concurrently on
\* different fields, the stored settings afterwards hold both updates: the
\* value written by the last call of each that returned is in the file.
NoLostUpdate ==
    \A fn \in UpdateFunctions :
       workers[fn].written # 0 =>
          load_settings(files)[FieldOf(fn)] = workers[fn].written

\* both functions have returned from a call, each having loaded the
\* settings before the other saved
NoLostUpdateWitness ==
    /\ \A fn \in UpdateFunctions :
          workers[fn].pc = "idle" /\ workers[fn].written # 0
    /\ \E fn \in UpdateFunctions :
          \E other \in UpdateFunctions \ {fn} :
             workers[fn].settings[FieldOf(other)] # workers[other].written

\* C28: while the housekeeping thread keeps running, a path put into the
\* pending map by a create or modify event, whose file stays and settles,
\* is eventually handed to process_document by a call made after the event,
\* after which the path is not in the pending map.
WatcherLiveness ==
    \A p \in FilePaths :
       (p \in DOMAIN processing_files) ~>
          (/\ last.op = "process_document"
           /\ last.path = p
           /\ p \notin DOMAIN processing_files
           /\ \A i \in 1..Len(housekeeper.to_process) :
                 housekeeper.to_process[i] # p)

\* a.txt was written twice; the housekeeper has just indexed its second
\* content and the path is pending no more
WatcherLivenessWitness ==
    /\ last.op = "process_document"
    /\ last.path = AbsPath(<<"a.txt">>)
    /\ last.ret
    /\ last.content = 2
    /\ AbsPath(<<"a.txt">>) \notin DOMAIN processing_files
    /\ events = <<>>

\* C29: with the FAQ cache enabled, get(q) returns an answer only if set was
\* called for the same normalised key no more than TTL seconds earlier; an
\* entry found older than TTL is removed and counted as a miss; every
\* enabled get adds one to exactly one of the two counters, so hits plus
\* misses is the number of enabled get calls, whatever the interleaving.
FaqExpiryAndCounting ==
    [][/\ (result' # result /\ result'.enabled) =>
            LET k == _key(result'.q) IN
            /\ result'.ret # None =>
                  /\ k \in DOMAIN globs.set_at
                  /\ result'.ret = globs.set_at[k].ans
                  /\ now - globs.set_at[k].ts <= TTL
            /\ (k \in DOMAIN cache /\ now - cache[k].ts > TTL) =>
                  /\ k \notin DOMAIN cache'
                  /\ result'.ret = None
                  /\ globs'.faq_misses = globs.faq_misses + 1
                  /\ globs'.faq_hits = globs.faq_hits
            /\ globs'.faq_hits + globs'.faq_misses
                  = globs.faq_hits + globs.faq_misses + 1
            /\ globs'.faq_hits >= globs.faq_hits
            /\ globs'.faq_misses >= globs.faq_misses
       /\ globs'.faq_hits + globs'.faq_misses
            + Cardinality({t \in FaqThreads :
                             workers'[t].pc = "lock"
                             /\ workers'[t].op = "get"})
            = globs'.gets]_vars

\* an answer set under one spelling of a question was returned for another
\* spelling exactly TTL seconds later, while the other thread was in a call
FaqExpiryAndCountingWitness ==
    /\ result # NoResult
    /\ result.enabled
    /\ result.ret # None
    /\ _key(result.q) \in DOMAIN globs.set_at
    /\ result.at - globs.set_at[_key(result.q)].ts = TTL
    /\ result.q # _key(result.q)
    /\ globs.faq_hits = 1
    /\ \E t \in FaqThreads : workers[t].pc = "lock"

\* C30: the variant list that _expand_queries returns and hybrid_rerank
\* scores against has at most expand_n + 1 entries and always contains the
\* original query, however many variants were generated for it.
ExpansionKeepsOriginal ==
    result # NoResult =>
        /\ Cardinality(result.exqs) <= args.expand_n + 1
        /\ Variant(FALSE, args.query) \in result.exqs

\* "purchase policy" has ten variants; the five listed first are all
\* synonym variants and the query itself is not among them
ExpansionKeepsOriginalWitness ==
    /\ result # NoResult
    /\ args.query = <<"purchase", "policy">>
    /\ args.expand_n = 4
    /\ Cardinality(ex(args.query)) = 10
    /\ Cardinality(result.exqs) = 5
    /\ Variant(FALSE, args.query) \notin result.exqs
    /\ result.exqs \subseteq synonyms(args.query)

====
